---- MODULE Spec2Model ----
(***************************************************************************)
(* Guardian gateway: the secure-inquiry pipeline.                          *)
(*   sanitize (PII redaction)  ->  callMockAi (circuit breaker)            *)
(*   ->  writeAuditEntry (encrypted audit trail)                           *)
(* Text is a sequence of one-character strings.  Time is Date.now() in ms. *)
(***************************************************************************)
EXTENDS Integers, Sequences, FiniteSets, Bags, TLC

(***************************************************************************)
(* Sanitizer: services/sanitizer.ts                                        *)
(***************************************************************************)
Digit == {"0", "1", "2", "3", "4", "5", "6", "7", "8", "9"}

Letter ==
  {"a", "b", "c", "d", "e", "f", "g", "h", "i", "j", "k", "l", "m",
   "n", "o", "p", "q", "r", "s", "t", "u", "v", "w", "x", "y", "z",
   "A", "B", "C", "D", "E", "F", "G", "H", "I", "J", "K", "L", "M",
   "N", "O", "P", "Q", "R", "S", "T", "U", "V", "W", "X", "Y", "Z"}

\* \w of the regular expressions
WordChar == Letter \cup Digit \cup {"_"}

\* [a-zA-Z0-9._%+-]
EmailLocal == Letter \cup Digit \cup {".", "_", "%", "+", "-"}

\* [a-zA-Z0-9.-]
EmailDomain == Letter \cup Digit \cup {".", "-"}

\* [ -]
CardSeparator == {" ", "-"}

\* {13,19} of CREDIT_CARD_REGEX
CARD_MIN_DIGITS == 13
CARD_MAX_DIGITS == 19

\* the character of s at position p is in class cls (false outside the text)
At(s, p, cls) == p >= 1 /\ p <= Len(s) /\ s[p] \in cls

\* \b between positions p-1 and p
WordBoundary(s, p) == At(s, p - 1, WordChar) # At(s, p, WordChar)

\* first position >= p whose character is not in cls
RECURSIVE RunEnd(_, _, _)
RunEnd(s, p, cls) == IF At(s, p, cls) THEN RunEnd(s, p + 1, cls) ELSE p

\* EMAIL_REGEX anchored at i: the position after the match, 0 when none.
\* The local part is the whole run up to "@"; the domain is taken greedily,
\* so the last ". letter letter" inside the domain run ends it.
EmailMatchEnd(s, i) ==
  LET at == RunEnd(s, i, EmailLocal)
      j  == at + 1
      k  == RunEnd(s, j, EmailDomain)
      dots == {d \in (j + 1)..(k - 1) :
                 /\ s[d] = "."
                 /\ At(s, d + 1, Letter)
                 /\ At(s, d + 2, Letter)}
      dot == CHOOSE d \in dots : \A e \in dots : e <= d
  IN  IF at > i /\ At(s, at, {"@"}) /\ dots # {}
        THEN RunEnd(s, dot + 1, Letter)
        ELSE 0

\* (?:\d[ -]*?){13,19}\b from position p with n groups done: the group
\* count is greedy, the separators of a group are lazy.
RECURSIVE CardGroups(_, _, _)
RECURSIVE CardSeparators(_, _, _)
CardGroups(s, p, n) ==
  LET more == IF n < CARD_MAX_DIGITS /\ At(s, p, Digit)
                THEN CardSeparators(s, p + 1, n + 1)
                ELSE 0
  IN  IF more # 0 THEN more
      ELSE IF n >= CARD_MIN_DIGITS /\ WordBoundary(s, p) THEN p
      ELSE 0

CardSeparators(s, q, n) ==
  LET rest == CardGroups(s, q, n)
  IN  IF rest # 0 THEN rest
      ELSE IF At(s, q, CardSeparator) THEN CardSeparators(s, q + 1, n)
      ELSE 0

\* CREDIT_CARD_REGEX anchored at i
CardMatchEnd(s, i) ==
  IF WordBoundary(s, i) THEN CardGroups(s, i, 0) ELSE 0

\* the characters at p .. p+n-1 are all digits
DigitsAt(s, p, n) == \A q \in p..(p + n - 1) : At(s, q, Digit)

\* SSN_REGEX anchored at i
SsnMatchEnd(s, i) ==
  IF ~WordBoundary(s, i) THEN 0
  ELSE IF /\ DigitsAt(s, i, 3) /\ At(s, i + 3, {"-"})
          /\ DigitsAt(s, i + 4, 2) /\ At(s, i + 6, {"-"})
          /\ DigitsAt(s, i + 7, 4) /\ WordBoundary(s, i + 11)
         THEN i + 11
  ELSE IF DigitsAt(s, i, 9) /\ WordBoundary(s, i + 9) THEN i + 9
  ELSE 0

PIIType == {"EMAIL", "CREDIT_CARD", "SSN"}

\* PII_PATTERNS, in scan order
PII_PATTERNS == <<
  [type |-> "EMAIL",
   placeholder |-> <<"<", "R", "E", "D", "A", "C", "T", "E", "D", ":", " ",
                     "E", "M", "A", "I", "L", ">">>],
  [type |-> "CREDIT_CARD",
   placeholder |-> <<"<", "R", "E", "D", "A", "C", "T", "E", "D", ":", " ",
                     "C", "R", "E", "D", "I", "T", "_", "C", "A", "R", "D",
                     ">">>],
  [type |-> "SSN",
   placeholder |-> <<"<", "R", "E", "D", "A", "C", "T", "E", "D", ":", " ",
                     "S", "S", "N", ">">>] >>

\* the pattern of a class anchored at i
MatchEnd(type, s, i) ==
  CASE type = "EMAIL" -> EmailMatchEnd(s, i)
    [] type = "CREDIT_CARD" -> CardMatchEnd(s, i)
    [] OTHER -> SsnMatchEnd(s, i)

\* as CountMatches, with a pattern that is not global: one match at most
RECURSIVE CountMatches_First(_, _, _)
CountMatches_First(type, s, i) ==
  IF i > Len(s) THEN 0
  ELSE IF MatchEnd(type, s, i) # 0 THEN 1
  ELSE CountMatches_First(type, s, i + 1)

\* String.prototype.match with a global pattern: the number of
\* non-overlapping matches found scanning from position i
RECURSIVE CountMatches(_, _, _)
CountMatches(type, s, i) ==
  IF i > Len(s) THEN 0
  ELSE LET e == MatchEnd(type, s, i)
       IN  IF e # 0 THEN 1 + CountMatches(type, s, e)
           ELSE CountMatches(type, s, i + 1)

\* as ReplaceAll, with a pattern that is not global: the first match only
RECURSIVE ReplaceAll_First(_, _, _, _)
ReplaceAll_First(type, s, i, placeholder) ==
  IF i > Len(s) THEN << >>
  ELSE LET e == MatchEnd(type, s, i)
       IN  IF e # 0 THEN placeholder \o SubSeq(s, e, Len(s))
           ELSE <<s[i]>> \o ReplaceAll_First(type, s, i + 1, placeholder)

\* String.prototype.replace with a global pattern
RECURSIVE ReplaceAll(_, _, _, _)
ReplaceAll(type, s, i, placeholder) ==
  IF i > Len(s) THEN << >>
  ELSE LET e == MatchEnd(type, s, i)
       IN  IF e # 0 THEN placeholder \o ReplaceAll(type, s, e, placeholder)
           ELSE <<s[i]>> \o ReplaceAll(type, s, i + 1, placeholder)

\* as SanitizeFrom, with an item for every class, matched or not
RECURSIVE SanitizeFrom_EveryClass(_, _, _)
SanitizeFrom_EveryClass(k, text, items) ==
  IF k > Len(PII_PATTERNS)
    THEN [redactedMessage |-> text, redactedItems |-> items]
    ELSE LET pattern == PII_PATTERNS[k]
             matches == CountMatches(pattern.type, text, 1)
         IN  SanitizeFrom_EveryClass(
               k + 1,
               ReplaceAll(pattern.type, text, 1, pattern.placeholder),
               Append(items, [type |-> pattern.type, count |-> matches]))

\* the loop of sanitize over PII_PATTERNS[k..]
RECURSIVE SanitizeFrom(_, _, _)
SanitizeFrom(k, text, items) ==
  IF k > Len(PII_PATTERNS)
    THEN [redactedMessage |-> text, redactedItems |-> items]
    ELSE LET pattern == PII_PATTERNS[k]
             matches == CountMatches(pattern.type, text, 1)
         IN  IF matches > 0
               THEN SanitizeFrom(
                      k + 1,
                      ReplaceAll(pattern.type, text, 1, pattern.placeholder),
                      Append(items, [type |-> pattern.type, count |-> matches]))
               ELSE SanitizeFrom(k + 1, text, items)

sanitize(message) == SanitizeFrom(1, message, << >>)

(***************************************************************************)
(* Circuit breaker: services/mockAi.ts                                     *)
(***************************************************************************)
FAILURE_THRESHOLD == 3
RESET_TIMEOUT == 30000
SIMULATED_DELAY == 2000

\* null of the timestamps
Null == -1

\* the module-level singleton at load time
circuitStateInit ==
  [state |-> "closed", failures |-> 0, lastFailure |-> Null, lastSuccess |-> Null]

\* as checkCircuitTransition, with > for >=
checkCircuitTransition_Never(cs, t) == cs

checkCircuitTransition_Strict(cs, t) ==
  IF /\ cs.state = "open"
     /\ cs.lastFailure # Null
     /\ t - cs.lastFailure > RESET_TIMEOUT
    THEN [cs EXCEPT !.state = "half-open"]
    ELSE cs

checkCircuitTransition(cs, t) ==
  IF /\ cs.state = "open"
     /\ cs.lastFailure # Null
     /\ t - cs.lastFailure >= RESET_TIMEOUT
    THEN [cs EXCEPT !.state = "half-open"]
    ELSE cs

\* as recordSuccess, with a success closing the breaker from OPEN as well
recordSuccess_ClosesOpen(cs, t) ==
  LET c1 == [cs EXCEPT !.lastSuccess = t]
  IN  IF c1.state \in {"half-open", "open"}
        THEN [c1 EXCEPT !.state = "closed", !.failures = 0]
        ELSE IF c1.state = "closed"
               THEN [c1 EXCEPT !.failures = 0]
               ELSE c1

\* as recordSuccess, with the HALF_OPEN branch closing the breaker and
\* leaving the failure count as it is
recordSuccess_ClosesOnly(cs, t) ==
  LET c1 == [cs EXCEPT !.lastSuccess = t]
  IN  IF c1.state = "half-open"
        THEN [c1 EXCEPT !.state = "closed"]
        ELSE IF c1.state = "closed"
               THEN [c1 EXCEPT !.failures = 0]
               ELSE c1

\* as recordSuccess, with the else-if branch for CLOSED left out
recordSuccess_KeepsCount(cs, t) ==
  LET c1 == [cs EXCEPT !.lastSuccess = t]
  IN  IF c1.state = "half-open"
        THEN [c1 EXCEPT !.state = "closed", !.failures = 0]
        ELSE c1

recordSuccess(cs, t) ==
  LET c1 == [cs EXCEPT !.lastSuccess = t]
  IN  IF c1.state = "half-open"
        THEN [c1 EXCEPT !.state = "closed", !.failures = 0]
        ELSE IF c1.state = "closed"
               THEN [c1 EXCEPT !.failures = 0]
               ELSE c1

\* as recordFailure, with lastFailure left as it is on an OPEN breaker
recordFailure_KeepsOpeningTime(cs, t) ==
  LET c1 == [cs EXCEPT !.failures = cs.failures + 1,
                       !.lastFailure = IF cs.state = "open" THEN @ ELSE t]
  IN  IF c1.state = "half-open"
        THEN [c1 EXCEPT !.state = "open"]
        ELSE IF c1.failures >= FAILURE_THRESHOLD
               THEN [c1 EXCEPT !.state = "open"]
               ELSE c1

\* as recordFailure, with the timestamp of the failure not taken
recordFailure_NoTimestamp(cs, t) ==
  LET c1 == [cs EXCEPT !.failures = cs.failures + 1]
  IN  IF c1.state = "half-open"
        THEN [c1 EXCEPT !.state = "open"]
        ELSE IF c1.failures >= FAILURE_THRESHOLD
               THEN [c1 EXCEPT !.state = "open"]
               ELSE c1

\* as recordFailure, with > for >= at the threshold
recordFailure_OffByOne(cs, t) ==
  LET c1 == [cs EXCEPT !.failures = cs.failures + 1, !.lastFailure = t]
  IN  IF c1.state = "half-open"
        THEN [c1 EXCEPT !.state = "open"]
        ELSE IF c1.failures > FAILURE_THRESHOLD
               THEN [c1 EXCEPT !.state = "open"]
               ELSE c1

\* as recordFailure, with the HALF_OPEN branch leaving the state as it is
recordFailure_KeepsHalfOpen(cs, t) ==
  LET c1 == [cs EXCEPT !.failures = cs.failures + 1, !.lastFailure = t]
  IN  IF c1.state = "half-open"
        THEN c1
        ELSE IF c1.failures >= FAILURE_THRESHOLD
               THEN [c1 EXCEPT !.state = "open"]
               ELSE c1

recordFailure(cs, t) ==
  LET c1 == [cs EXCEPT !.failures = cs.failures + 1, !.lastFailure = t]
  IN  IF c1.state = "half-open"
        THEN [c1 EXCEPT !.state = "open"]
        ELSE IF c1.failures >= FAILURE_THRESHOLD
               THEN [c1 EXCEPT !.state = "open"]
               ELSE c1

\* as resetCircuitBreaker, with the two timestamps left as they are
resetCircuitBreaker_KeepsTimestamps(cs) ==
  [cs EXCEPT !.state = "closed", !.failures = 0]

resetCircuitBreaker(cs) ==
  [cs EXCEPT !.state = "closed", !.failures = 0,
             !.lastFailure = Null, !.lastSuccess = Null]

\* Result.err(serviceUnavailableError())
serviceUnavailableError ==
  [ok |-> FALSE, status |-> 503, code |-> "SERVICE_UNAVAILABLE",
   message |-> <<"Service Busy">>]

\* the error callMockAi returns from its catch block
aiServiceError ==
  [ok |-> FALSE, status |-> 500, code |-> "AI_SERVICE_ERROR",
   message |-> <<"Simulated AI service failure">>]

\* Result.ok(response): the answer quotes the length of the text it was given
mockAiResponse(message) ==
  [ok |-> TRUE, status |-> 200, code |-> "OK",
   message |-> <<"This is a mock AI response", Len(message)>>]

\* as circuitRejects, rejecting whenever the breaker is not CLOSED
circuitRejects_NotClosed(cs) == cs.state # "closed"

\* callMockAi rejects without calling downstream
circuitRejects(cs) == cs.state = "open"

\* toISOString of a timestamp, null when the field is falsy
IsoOrNull(t) == IF t # Null /\ t # 0 THEN <<"iso", t>> ELSE <<"null">>

getCircuitBreakerStatus(cs) ==
  [state |-> cs.state, failures |-> cs.failures,
   lastFailure |-> IsoOrNull(cs.lastFailure),
   lastSuccess |-> IsoOrNull(cs.lastSuccess)]

(***************************************************************************)
(* Key derivation and encryption: utils/crypto.ts, env.ts                  *)
(* A key, a ciphertext and a tag are symbolic terms: equal terms stand for *)
(* equal bytes, different terms for different bytes.                       *)
(***************************************************************************)
\* process environments that pass the start-up validation of env.ts;
\* keys[v] is the master key variable of version v
Envs ==
  { [APP_ENV |-> "development", AUDIT_KEY_VERSION |-> 1,
     keys |-> <<"absent", "absent">>],
    [APP_ENV |-> "production", AUDIT_KEY_VERSION |-> 2,
     keys |-> <<"hex64", "absent">>] }

getCurrentKeyVersion(e) == e.AUDIT_KEY_VERSION

\* as getMasterKey, with the key synthesized from the current key version
getMasterKey_FromCurrentVersion(e, version) ==
  LET keyHex == e.keys[version]
  IN  IF keyHex # "absent"
        THEN IF keyHex # "hex64"
               THEN [ok |-> FALSE, key |-> <<"none">>]
               ELSE [ok |-> TRUE, key |-> <<"configured", version>>]
        ELSE IF e.APP_ENV = "development"
               THEN [ok |-> TRUE,
                     key |-> <<"dev-master-key", getCurrentKeyVersion(e)>>]
               ELSE [ok |-> FALSE, key |-> <<"none">>]

\* as getMasterKey, with the synthesized key in every mode
getMasterKey_AnyMode(e, version) ==
  LET keyHex == e.keys[version]
  IN  IF keyHex # "absent"
        THEN IF keyHex # "hex64"
               THEN [ok |-> FALSE, key |-> <<"none">>]
               ELSE [ok |-> TRUE, key |-> <<"configured", version>>]
        ELSE [ok |-> TRUE, key |-> <<"dev-master-key", version>>]

getMasterKey(e, version) ==
  LET keyHex == e.keys[version]
  IN  IF keyHex # "absent"
        THEN IF keyHex # "hex64"
               THEN [ok |-> FALSE, key |-> <<"none">>]
               ELSE [ok |-> TRUE, key |-> <<"configured", version>>]
        ELSE IF e.APP_ENV = "development"
               THEN [ok |-> TRUE, key |-> <<"dev-master-key", version>>]
               ELSE [ok |-> FALSE, key |-> <<"none">>]

\* A JavaScript string is a sequence of UTF-16 code units. An ASCII unit is
\* its character; the units below are named by their hexadecimal value.
HighSurrogates == {"D800", "DBFF"}
LowSurrogates == {"DC00"}
ReplacementCharacter == "FFFD"

\* unit i of s is half of a surrogate pair
Paired(s, i) ==
  \/ s[i] \in HighSurrogates /\ i < Len(s) /\ s[i + 1] \in LowSurrogates
  \/ s[i] \in LowSurrogates /\ i > 1 /\ s[i - 1] \in HighSurrogates

\* unit i of s is a surrogate with no partner
Unpaired(s, i) ==
  s[i] \in HighSurrogates \cup LowSurrogates /\ ~Paired(s, i)

\* as utf8Encode, keeping unpaired surrogates
utf8Encode_Lossless(s) == [i \in 1..Len(s) |-> <<"utf8", s[i]>>]

\* the UTF-8 bytes of string s (cipher.update(s, 'utf8'), a string given
\* to hkdfSync), unit by unit: an unpaired surrogate is encoded as U+FFFD
utf8Encode(s) ==
  [i \in 1..Len(s) |->
     <<"utf8", IF Unpaired(s, i) THEN ReplacementCharacter ELSE s[i]>>]

\* the string of well-formed UTF-8 bytes (buffer.toString('utf8'))
utf8Decode(bytes) == [i \in 1..Len(bytes) |-> bytes[i][2]]

\* the number of bytes of utf8Encode(s): 1 for an ASCII unit, 3 for U+FFFD,
\* 4 for a surrogate pair
utf8Length(s) ==
  Len(s)
    + 2 * Cardinality({i \in 1..Len(s) :
                         Unpaired(s, i) \/ s[i] = ReplacementCharacter})
    + Cardinality({i \in 1..Len(s) : Paired(s, i)})

\* buffer.toString('base64') and Buffer.from(text, 'base64')
base64Encode(bytes) == <<"base64", bytes>>
base64Decode(text) == text[2]

\* `${keyVersion}`
RECURSIVE DecimalDigits(_)
DecimalDigits(n) ==
  LET digit == <<"0", "1", "2", "3", "4", "5", "6", "7", "8", "9">>[(n % 10) + 1]
  IN  IF n < 10 THEN <<digit>> ELSE Append(DecimalDigits(n \div 10), digit)

\* hkdfSync accepts at most this many bytes of info
HKDF_INFO_MAX == 1024

\* `user:${userId}:v${keyVersion}`
hkdfInfo(userId, keyVersion) ==
  <<"u", "s", "e", "r", ":">> \o userId \o <<":", "v">>
    \o DecimalDigits(keyVersion)

\* ok is FALSE when hkdfSync throws
deriveUserKey(masterKey, userId, keyVersion) ==
  LET info == hkdfInfo(userId, keyVersion)
  IN  [ok |-> utf8Length(info) <= HKDF_INFO_MAX,
       key |-> <<"hkdf", masterKey, utf8Encode(info)>>]

NoPayload ==
  [ok |-> FALSE, ciphertext |-> << >>, iv |-> << >>, tag |-> << >>, keyVersion |-> 0]

\* encrypt(plaintext, userId, keyVersion) with the random nonce iv; ok is
\* FALSE when getMasterKey or deriveUserKey throws
encryptVersion(e, plaintext, userId, keyVersion, iv) ==
  LET master == getMasterKey(e, keyVersion)
      userKey == deriveUserKey(master.key, userId, keyVersion)
      bytes == utf8Encode(plaintext)
  IN  IF master.ok /\ userKey.ok
        THEN [ok |-> TRUE,
              ciphertext |-> base64Encode(
                               <<"aes-256-gcm", userKey.key, iv, bytes>>),
              iv |-> base64Encode(iv),
              tag |-> base64Encode(<<"tag", userKey.key, iv, bytes>>),
              keyVersion |-> keyVersion]
        ELSE [NoPayload EXCEPT !.keyVersion = keyVersion]

\* encrypt(plaintext, userId): the current key version
encrypt(e, plaintext, userId, iv) ==
  encryptVersion(e, plaintext, userId, getCurrentKeyVersion(e), iv)

NoPlaintext == [ok |-> FALSE, plaintext |-> << >>]

\* as decrypt, with the key of the current version
decrypt_CurrentVersion(e, payload, userId) ==
  LET version == getCurrentKeyVersion(e)
      master == getMasterKey(e, version)
      userKey == deriveUserKey(master.key, userId, version)
      sealed == base64Decode(payload.ciphertext)
  IN  IF /\ master.ok
         /\ userKey.ok
         /\ sealed[2] = userKey.key
         /\ sealed[3] = base64Decode(payload.iv)
         /\ base64Decode(payload.tag) =
              <<"tag", userKey.key, sealed[3], sealed[4]>>
        THEN [ok |-> TRUE, plaintext |-> utf8Decode(sealed[4])]
        ELSE NoPlaintext

\* decrypt(payload, userId) of a payload encrypt returned; ok is FALSE when
\* getMasterKey, deriveUserKey or decipher.final() (tag mismatch) throws
decrypt(e, payload, userId) ==
  LET master == getMasterKey(e, payload.keyVersion)
      userKey == deriveUserKey(master.key, userId, payload.keyVersion)
      sealed == base64Decode(payload.ciphertext)
  IN  IF /\ master.ok
         /\ userKey.ok
         /\ sealed[2] = userKey.key
         /\ sealed[3] = base64Decode(payload.iv)
         /\ base64Decode(payload.tag) =
              <<"tag", userKey.key, sealed[3], sealed[4]>>
        THEN [ok |-> TRUE, plaintext |-> utf8Decode(sealed[4])]
        ELSE NoPlaintext

(***************************************************************************)
(* Request validation and the controller's choices:                        *)
(* models/inquiry.ts, controllers/inquiry.ts                               *)
(***************************************************************************)
MESSAGE_MAX_LENGTH == 10000

\* as secureInquiryRequestSchema, with no minimum length for userId
secureInquiryRequestSchema_AnyUser(body) ==
  /\ Len(body.message) >= 1
  /\ Len(body.message) <= MESSAGE_MAX_LENGTH

secureInquiryRequestSchema(body) ==
  /\ Len(body.userId) >= 1
  /\ Len(body.message) >= 1
  /\ Len(body.message) <= MESSAGE_MAX_LENGTH

\* as downstreamMessage, handing over the message as received
downstreamMessage_Original(message, sanitizeResult) == message

\* the text processInquiry hands to callMockAi
downstreamMessage(message, sanitizeResult) == sanitizeResult.redactedMessage

\* processInquiry writes an audit entry for this callMockAi result
auditsResult(aiResult) ==
  IF ~aiResult.ok THEN aiResult.status = 503 ELSE TRUE

\* as auditArgument, with success: true on both paths
auditArgument_AlwaysSuccess(userId, message, sanitizeResult, aiResult) ==
  [userId |-> userId,
   originalMessage |-> message,
   redactedMessage |-> sanitizeResult.redactedMessage,
   aiResponse |-> IF aiResult.ok THEN aiResult.message ELSE <<"null">>,
   success |-> TRUE]

\* the argument of writeAuditEntry
auditArgument(userId, message, sanitizeResult, aiResult) ==
  [userId |-> userId,
   originalMessage |-> message,
   redactedMessage |-> sanitizeResult.redactedMessage,
   aiResponse |-> IF aiResult.ok THEN aiResult.message ELSE <<"null">>,
   success |-> aiResult.ok]

\* as writeAuditEntryCalls, with the 503 branch falling through to the
\* audit write of step 4
writeAuditEntryCalls_FallsThrough(aiResult, arg) ==
  IF ~aiResult.ok
    THEN IF aiResult.status = 503 THEN <<arg, arg>> ELSE << >>
    ELSE <<arg>>

\* the writeAuditEntry calls processInquiry makes after callMockAi, in
\* order: one in the 503 branch before its return, none for another
\* error, one at step 4 for a success
writeAuditEntryCalls(aiResult, arg) ==
  IF ~aiResult.ok
    THEN IF aiResult.status = 503 THEN <<arg>> ELSE << >>
    ELSE <<arg>>

NoItems == << >>

\* Errors.validation(...) through execute
validationResponse ==
  [status |-> 422, code |-> "VALIDATION_ERROR", userId |-> << >>,
   redactedMessage |-> << >>, aiResponse |-> << >>, redactedItems |-> NoItems]

\* what execute makes of the Result processInquiry returns
inquiryResponse(userId, sanitizeResult, aiResult) ==
  IF aiResult.ok
    THEN [status |-> 200, code |-> "OK", userId |-> userId,
          redactedMessage |-> sanitizeResult.redactedMessage,
          aiResponse |-> aiResult.message,
          redactedItems |-> sanitizeResult.redactedItems]
    ELSE [status |-> aiResult.status, code |-> aiResult.code, userId |-> << >>,
          redactedMessage |-> << >>, aiResponse |-> aiResult.message,
          redactedItems |-> NoItems]

\* as afterAuditResult, with a failed audit write returned to the user
afterAuditResult_Surfaces(auditResult, primary) ==
  IF auditResult = "error"
    THEN [status |-> 500, code |-> "INTERNAL_ERROR", userId |-> primary.userId,
          redactedMessage |-> << >>, aiResponse |-> << >>,
          redactedItems |-> NoItems]
    ELSE primary

\* what processInquiry returns once writeAuditEntry has returned
\* auditResult: the result it already had from callMockAi
afterAuditResult(auditResult, primary) == primary

(***************************************************************************)
(* The running process                                                     *)
(***************************************************************************)
\* inquiries (or direct callMockAi calls) in flight at once
MaxInFlight == 2
\* inquiries received in a run of the pipeline
MaxInquiries == 4
\* direct callMockAi calls in a run of the breaker
MaxCalls == 5
\* callMockAi calls in a run of the breaker statement by statement
MaxAtomicCalls == 4

\* the values Date.now() takes when something runs
Instants == {1000, 5000, 30999, 31000, 35000}

\* the instants of a pipeline run
EarlyInstants == {t \in Instants : t <= 5000}

\* nonces crypto.randomBytes returns in a pipeline run; the pipeline
\* stores a nonce and never compares two
IVs == {"iv1"}

\* a message one character longer than the schema accepts
LongMessage == [i \in 1..(MESSAGE_MAX_LENGTH + 1) |-> "x"]

\* request bodies: PII of two classes, no PII, empty userId, empty message,
\* a message too long
Bodies ==
  { [userId |-> <<"u", "1">>,
     message |-> <<"a", "@", "b", ".", "c", "c", " ",
                   "1", "2", "3", "-", "4", "5", "-", "6", "7", "8", "9">>],
    [userId |-> <<"u", "2">>, message |-> <<"h", "i">>],
    [userId |-> << >>, message |-> <<"h", "i">>],
    [userId |-> <<"u", "1">>, message |-> << >>],
    [userId |-> <<"u", "2">>, message |-> LongMessage] }

\* sanitize of the message of each body that passes validation, computed
\* once
SanitizedBodies ==
  [body \in {b \in Bodies : secureInquiryRequestSchema(b)} |->
     sanitize(body.message)]

\* the text of a direct callMockAi call
CallTexts == { <<"t", "e", "s", "t">> }

NoResult == [ok |-> FALSE, status |-> 0, code |-> "NONE", message |-> << >>]
NoSanitizeResult == [redactedMessage |-> << >>, redactedItems |-> NoItems]
NoResponse ==
  [status |-> 0, code |-> "NONE", userId |-> << >>, redactedMessage |-> << >>,
   aiResponse |-> << >>, redactedItems |-> NoItems]

\* the locals of a request that has just arrived
NewRequest ==
  [pc |-> "idle",
   body |-> [userId |-> << >>, message |-> << >>],
   sanitizeResult |-> NoSanitizeResult,
   called |-> FALSE,          \* callMockAi was called
   sent |-> << >>,            \* with this text
   startTime |-> Null,
   checked |-> "none",        \* breaker state right after the lazy check
   aiResult |-> NoResult,
   resolvedAt |-> Null,       \* when callMockAi returned
   recorded |-> "none",       \* the outcome callMockAi recorded
   outcomes |-> << >>,        \* the calls of recordSuccess and recordFailure
   auditCalls |-> << >>,      \* arguments of the writeAuditEntry calls
   payload |-> NoPayload,
   auditResult |-> "none",
   auditError |-> NoResult,   \* the error writeAuditEntry returned
   entryId |-> 0,             \* the id a file copy generated for the entry
   timestamp |-> Null,        \* the timestamp a file copy took for it
   response |-> NoResponse,
   reader |-> << >>,          \* the userId given to decrypt
   decrypted |-> NoPlaintext] \* what decrypt returned

VARIABLES
  env,           \* the validated process environment
  now,           \* Date.now()
  circuitState,  \* the breaker singleton of mockAi.ts
  inflight,      \* the bag of requests in flight, each with its locals
  auditEntries,  \* the audit_entries table, in insertion order
  started,       \* inquiries or calls received so far
  consecutive,   \* failures recorded since the last recorded success or reset
  lastOp,        \* the last breaker operation and the state it found
  lastRead,      \* what the latest read of the audit trail returned
  reads,         \* the reads of the audit trail that have not returned yet
  running,       \* the call on the JavaScript stack, with its position
  shadow,        \* breaker and calls as the whole operations leave them
  service,       \* the services/auditLog.ts the process has loaded
  openedAt       \* while the breaker is OPEN: when the failure that moved
                 \* it there was recorded

vars ==
  <<env, now, circuitState, inflight, auditEntries, started, consecutive,
    lastOp, lastRead, reads, running, shadow, service, openedAt>>

\* no read of the audit trail yet
NoRead ==
  [op |-> "none", userId |-> << >>, given |-> 0, limit |-> 0,
   ok |-> FALSE, code |-> "NONE", value |-> << >>]

\* nothing is on the stack: the event loop is between two tasks
NoTask == NewRequest

Init ==
  /\ env \in Envs
  /\ now = 1000
  /\ circuitState = circuitStateInit
  /\ inflight = EmptyBag
  /\ auditEntries = << >>
  /\ started = 0
  /\ consecutive = 0
  /\ lastOp = [op |-> "init", pre |-> "closed", at |-> Null]
  /\ lastRead = NoRead
  /\ reads = EmptyBag
  /\ running = NoTask
  /\ shadow = [cs |-> circuitStateInit, inflight |-> EmptyBag]
  /\ service = "database"
  /\ openedAt = Null

Requests == BagToSet(inflight)

Op(name) == [op |-> name, pre |-> circuitState.state, at |-> now]

\* openedAt once the breaker cs has become after at time t: the time of the
\* recordFailure that assigned OPEN to a breaker that was not OPEN
opened(cs, after, t) ==
  IF after.state = "open"
    THEN IF cs.state = "open" THEN openedAt ELSE t
    ELSE Null

\* request r goes on as q
Becomes(r, q) == (inflight (-) SetToBag({r})) (+) SetToBag({q})

\* as callMockAiEnter, with the rejection made after the simulated delay
callMockAiEnter_DelayFirst(r, message, cs, t) ==
  [r EXCEPT !.pc = "delay", !.called = TRUE, !.sent = message,
            !.startTime = t, !.checked = cs.state]

\* callMockAi(message) up to its first await or return, for request r: the
\* lazy check has produced cs; the call is rejected or starts the delay
callMockAiEnter(r, message, cs, t) ==
  [r EXCEPT
     !.pc = IF circuitRejects(cs) THEN "aiDone" ELSE "delay",
     !.called = TRUE,
     !.sent = message,
     !.startTime = t,
     !.checked = cs.state,
     !.aiResult = IF circuitRejects(cs) THEN serviceUnavailableError ELSE NoResult,
     !.resolvedAt = IF circuitRejects(cs) THEN t ELSE Null]

\* POST /secure-inquiry up to the first await: validation, sanitize, and
\* callMockAi up to its rejection or to the start of the simulated delay
ProcessInquiry(body) ==
  /\ BagCardinality(inflight) < MaxInFlight
  /\ started' = started + 1
  /\ IF ~secureInquiryRequestSchema(body)
       THEN /\ inflight' = inflight (+) SetToBag({
                   [NewRequest EXCEPT !.pc = "done", !.body = body,
                                      !.response = validationResponse]})
            /\ UNCHANGED <<circuitState, lastOp, openedAt>>
       ELSE LET sanitizeResult == SanitizedBodies[body]
                message == downstreamMessage(body.message, sanitizeResult)
                cs == checkCircuitTransition(circuitState, now)
            IN  /\ circuitState' = cs
                /\ openedAt' = opened(circuitState, cs, now)
                /\ lastOp' = Op(IF circuitRejects(cs) THEN "reject" ELSE "admit")
                /\ inflight' = inflight (+) SetToBag({
                     callMockAiEnter(
                       [NewRequest EXCEPT !.body = body,
                                          !.sanitizeResult = sanitizeResult],
                       message, cs, now)})
  /\ UNCHANGED <<running, shadow, env, now, auditEntries, lastRead, reads, consecutive, service>>

\* as Invoke, with the rejection decided on the state found before the lazy
\* check
Invoke_DecidesFirst(message) ==
  LET cs == checkCircuitTransition(circuitState, now)
  IN  /\ BagCardinality(inflight) < MaxInFlight
      /\ started' = started + 1
      /\ circuitState' = cs
      /\ openedAt' = opened(circuitState, circuitState', now)
      /\ lastOp' = Op(IF circuitRejects(circuitState) THEN "reject" ELSE "admit")
      /\ inflight' = inflight (+) SetToBag({
           callMockAiEnter(NewRequest, message, circuitState, now)})
      /\ UNCHANGED <<running, shadow, env, now, auditEntries, lastRead, reads, consecutive, service>>

\* as Invoke, with the breaker held while a downstream call is outstanding
Invoke_Serialized(message) ==
  LET cs == checkCircuitTransition(circuitState, now)
  IN  /\ \A r \in Requests : r.pc # "delay"
      /\ BagCardinality(inflight) < MaxInFlight
      /\ started' = started + 1
      /\ circuitState' = cs
      /\ openedAt' = opened(circuitState, circuitState', now)
      /\ lastOp' = Op(IF circuitRejects(cs) THEN "reject" ELSE "admit")
      /\ inflight' = inflight (+) SetToBag({callMockAiEnter(NewRequest, message, cs, now)})
      /\ UNCHANGED <<running, shadow, env, now, auditEntries, lastRead, reads, consecutive, service>>

\* a direct call of callMockAi(message), up to its first await or return
Invoke(message) ==
  LET cs == checkCircuitTransition(circuitState, now)
  IN  /\ BagCardinality(inflight) < MaxInFlight
      /\ started' = started + 1
      /\ circuitState' = cs
      /\ openedAt' = opened(circuitState, circuitState', now)
      /\ lastOp' = Op(IF circuitRejects(cs) THEN "reject" ELSE "admit")
      /\ inflight' = inflight (+) SetToBag({callMockAiEnter(NewRequest, message, cs, now)})
      /\ UNCHANGED <<running, shadow, env, now, auditEntries, lastRead, reads, consecutive, service>>

\* what callMockAi returns after the delay, for request r
callMockAiLeave(r, fail, t) ==
  [r EXCEPT !.pc = "aiDone",
            !.aiResult = IF fail THEN aiServiceError
                                 ELSE mockAiResponse(r.sent),
            !.recorded = IF fail THEN "failure" ELSE "success",
            !.outcomes = IF fail THEN <<"failure">> ELSE <<"success">>,
            !.resolvedAt = t]

\* callMockAi after the simulated delay: shouldFail, the outcome recorded,
\* the result returned. The delay is a setTimeout, which the event loop
\* fires by its monotonic clock; now is Date.now(), the wall clock, which
\* the timer never reads and which may be adjusted meanwhile, so the call
\* is resumed whatever now - r.startTime is
DownstreamComplete(r, fail) ==
  /\ r.pc = "delay"
  /\ circuitState' = IF fail THEN recordFailure(circuitState, now)
                             ELSE recordSuccess(circuitState, now)
  /\ openedAt' = opened(circuitState, circuitState', now)
  /\ consecutive' = IF fail THEN consecutive + 1 ELSE 0
  /\ lastOp' = Op(IF fail THEN "recordFailure" ELSE "recordSuccess")
  /\ inflight' = Becomes(r, callMockAiLeave(r, fail, now))
  /\ UNCHANGED <<running, shadow, env, now, auditEntries, lastRead, reads, started, service>>

\* the direct caller has its result
Return(r) ==
  /\ r.pc = "aiDone"
  /\ inflight' = inflight (-) SetToBag({r})
  /\ UNCHANGED <<running, shadow, env, now, circuitState, auditEntries, lastRead, reads, started, consecutive, lastOp, service, openedAt>>

\* Errors.internal(message)
ErrorsInternal(message) ==
  [ok |-> FALSE, status |-> 500, code |-> "INTERNAL_ERROR", message |-> message]

\* the name of the environment variable of a key version
envKey(version) ==
  IF version = 1 THEN <<"AUDIT_MASTER_KEY">>
                 ELSE <<"AUDIT_MASTER_KEY_V">> \o DecimalDigits(version)

\* the message of the Error encrypt throws: from getMasterKey, or from
\* hkdfSync in deriveUserKey
encryptErrorMessage(e, userId, keyVersion) ==
  IF ~getMasterKey(e, keyVersion).ok
    THEN IF e.keys[keyVersion] # "absent"
           THEN envKey(keyVersion)
                  \o <<" must be a 64-character hex string (32 bytes)">>
           ELSE envKey(keyVersion) \o <<" is required in production">>
    ELSE <<"hkdfSync: info out of range">>

\* the message of the Error a rejected insert throws
insertErrorMessage == <<"insert failed">>

\* the catch block of writeAuditEntry: what it returns for a thrown Error
writeAuditEntryCatch(message) == ErrorsInternal(message)

\* as afterEncrypt, with the insert issued whatever encrypt did
afterEncrypt_InsertsAnyway(enc) == "inserting"

\* writeAuditEntry after encrypt: the insert is issued, or, encrypt having
\* thrown, the catch block returns the error
afterEncrypt(enc) == IF enc.ok THEN "inserting" ELSE "audited"

\* processInquiry after await callMockAi: return the error, or call
\* writeAuditEntry, which encrypts and issues the insert
AfterCall(r, iv) ==
  LET arg == auditArgument(r.body.userId, r.body.message,
                           r.sanitizeResult, r.aiResult)
      enc == encrypt(env, arg.originalMessage, arg.userId, iv)
  IN  /\ r.pc = "aiDone"
      /\ IF auditsResult(r.aiResult)
           THEN inflight' = Becomes(r,
                  [r EXCEPT !.auditCalls = @ \o writeAuditEntryCalls(r.aiResult, arg),
                            !.payload = IF enc.ok THEN enc ELSE NoPayload,
                            !.auditResult = IF enc.ok THEN "none" ELSE "error",
                            !.auditError =
                               IF enc.ok THEN NoResult
                               ELSE writeAuditEntryCatch(encryptErrorMessage(
                                      env, arg.userId,
                                      getCurrentKeyVersion(env))),
                            !.pc = afterEncrypt(enc)])
           ELSE inflight' = Becomes(r,
                  [r EXCEPT !.pc = "done",
                            !.response = inquiryResponse(
                               r.body.userId, r.sanitizeResult, r.aiResult)])
      /\ UNCHANGED <<running, shadow, env, now, circuitState, auditEntries, lastRead, reads, started, consecutive, lastOp, service, openedAt>>

\* JSON.stringify and JSON.parse of an EncryptedPayload
jsonStringify(payload) == <<"json", payload>>
jsonParse(text) == text[2]

\* as auditRow, with the key_version column left to its default
auditRow_DefaultVersion(arg, payload, id, createdAt) ==
  [id |-> id,
   userId |-> arg.userId,
   originalMessage |-> jsonStringify(payload),
   redactedMessage |-> arg.redactedMessage,
   aiResponse |-> arg.aiResponse,
   success |-> arg.success,
   keyVersion |-> 1,
   createdAt |-> createdAt]

\* the row db.insert stores for a writeAuditEntry call
auditRow(arg, payload, id, createdAt) ==
  [id |-> id,
   userId |-> arg.userId,
   originalMessage |-> jsonStringify(payload),
   redactedMessage |-> arg.redactedMessage,
   aiResponse |-> arg.aiResponse,
   success |-> arg.success,
   keyVersion |-> payload.keyVersion,
   createdAt |-> createdAt]

\* as DbInsert, with the table written over instead of added to
DbInsert_Overwrites(r, stored) ==
  LET arg == r.auditCalls[Len(r.auditCalls)]
  IN  /\ r.pc = "inserting"
      /\ auditEntries' =
           IF stored
             THEN <<auditRow(arg, r.payload, Len(auditEntries) + 1, now)>>
             ELSE auditEntries
      /\ inflight' = Becomes(r,
           [r EXCEPT !.pc = "audited",
                     !.auditResult = IF stored THEN "ok" ELSE "error",
                     !.auditError =
                        IF stored THEN NoResult
                        ELSE writeAuditEntryCatch(insertErrorMessage)])
      /\ UNCHANGED <<running, shadow, env, now, circuitState, started, consecutive,
                     lastOp, lastRead, reads, service, openedAt>>

\* the database answers the insert: the row is stored, or the insert fails
DbInsert(r, stored) ==
  LET arg == r.auditCalls[Len(r.auditCalls)]
  IN  /\ r.pc = "inserting"
      /\ auditEntries' =
           IF stored
             THEN Append(auditEntries,
                         auditRow(arg, r.payload, Len(auditEntries) + 1, now))
             ELSE auditEntries
      /\ inflight' = Becomes(r,
           [r EXCEPT !.pc = "audited",
                     !.auditResult = IF stored THEN "ok" ELSE "error",
                     !.auditError =
                        IF stored THEN NoResult
                        ELSE writeAuditEntryCatch(insertErrorMessage)])
      /\ UNCHANGED <<running, shadow, env, now, circuitState, started, consecutive,
                     lastOp, lastRead, reads, service, openedAt>>

\* processInquiry after await writeAuditEntry: the response
AfterAudit(r) ==
  /\ r.pc = "audited"
  /\ inflight' = Becomes(r,
       [r EXCEPT !.pc = "done",
                 !.response = afterAuditResult(r.auditResult,
                    inquiryResponse(
                      r.body.userId, r.sanitizeResult, r.aiResult))])
  /\ UNCHANGED <<running, shadow, env, now, circuitState, auditEntries, lastRead, reads, started, consecutive, lastOp, service, openedAt>>

\* the response is sent
Respond(r) ==
  /\ r.pc = "done"
  /\ inflight' = inflight (-) SetToBag({r})
  /\ UNCHANGED <<running, shadow, env, now, circuitState, auditEntries, lastRead, reads, started, consecutive, lastOp, service, openedAt>>

\* as checkHealth, reporting degraded whenever the breaker is not CLOSED
checkHealth_NotClosed(cs, t) ==
  LET circuitBreakerStatus == getCircuitBreakerStatus(cs)
      isCircuitOpen == circuitBreakerStatus.state # "closed"
  IN  [status |-> IF isCircuitOpen THEN "degraded" ELSE "healthy",
       timestamp |-> <<"iso", t>>,
       services |->
         [mockAi |->
            [status |-> IF isCircuitOpen THEN "unavailable" ELSE "available",
             circuitBreaker |-> circuitBreakerStatus]]]

\* the body of the response of checkHealth, cs being the breaker after the
\* lazy check of getCircuitBreakerStatus; uptime is left out
checkHealth(cs, t) ==
  LET circuitBreakerStatus == getCircuitBreakerStatus(cs)
      isCircuitOpen == circuitBreakerStatus.state = "open"
  IN  [status |-> IF isCircuitOpen THEN "degraded" ELSE "healthy",
       timestamp |-> <<"iso", t>>,
       services |->
         [mockAi |->
            [status |-> IF isCircuitOpen THEN "unavailable" ELSE "available",
             circuitBreaker |-> circuitBreakerStatus]]]

\* GET /health: getCircuitBreakerStatus makes the lazy check, checkHealth
\* answers from the status it returns
GetStatus ==
  /\ circuitState' = checkCircuitTransition(circuitState, now)
  /\ openedAt' = opened(circuitState, circuitState', now)
  /\ lastOp' = [op |-> "getStatus", pre |-> circuitState.state, at |-> now,
                health |-> checkHealth(
                             checkCircuitTransition(circuitState, now), now)]
  /\ UNCHANGED <<running, shadow, env, now, inflight, auditEntries, lastRead, reads, started, consecutive, service>>

\* administrative reset
Reset ==
  /\ circuitState' = resetCircuitBreaker(circuitState)
  /\ openedAt' = opened(circuitState, circuitState', now)
  /\ consecutive' = 0
  /\ lastOp' = Op("reset")
  /\ UNCHANGED <<running, shadow, env, now, inflight, auditEntries, lastRead, reads, started, service>>

\* the clock advances to one of the instants
Tick(instants) ==
  /\ \E t \in instants : t > now /\ now' = t
  /\ UNCHANGED <<running, shadow, env, circuitState, inflight, auditEntries, lastRead, reads, started, consecutive, lastOp, service, openedAt>>

\* The pipeline: concurrent inquiries through processInquiry, within one
\* reading of the clock; SpecAudit and SpecRestart let the clock advance
Next ==
  \/ \E body \in Bodies : started < MaxInquiries /\ ProcessInquiry(body)
  \/ \E r \in Requests, fail \in BOOLEAN : DownstreamComplete(r, fail)
  \/ \E r \in Requests, iv \in IVs : AfterCall(r, iv)
  \/ \E r \in Requests, stored \in BOOLEAN : DbInsert(r, stored)
  \/ \E r \in Requests : AfterAudit(r)
  \/ \E r \in Requests : Respond(r)

Spec == Init /\ [][Next]_vars

(***************************************************************************)
(* The audit trail (SpecAudit): inquiries, and reads of audit_entries      *)
(***************************************************************************)
\* inquiries and reads in a run with reads
MaxAuditInquiries == 2

\* the instants of a run with reads: entries of the same and of different
\* createdAt
AuditInstants == {t \in Instants : t <= 5000}

\* the default limits of the two reads
READ_BY_USER_LIMIT == 100
READ_LIMIT == 1000

\* the limit argument a reader passes; Null is the argument left out
UserLimits == {1, Null}
Limits == {1, Null}

\* the parameter limit = 100 of readAuditEntriesByUser
byUserLimit(given) == IF given = Null THEN READ_BY_USER_LIMIT ELSE given

\* as globalLimit, with the default of readAuditEntriesByUser
globalLimit_UserDefault(given) ==
  IF given = Null THEN READ_BY_USER_LIMIT ELSE given

\* the parameter limit = 1000 of readAuditEntries
globalLimit(given) == IF given = Null THEN READ_LIMIT ELSE given

\* users whose entries are read
ReadUserIds ==
  {body.userId : body \in {b \in Bodies : secureInquiryRequestSchema(b)}}

\* rows.map: the AuditEntry of a row
auditEntryOf(row) ==
  [id |-> row.id,
   timestamp |-> <<"iso", row.createdAt>>,
   userId |-> row.userId,
   originalMessage |-> row.originalMessage,
   redactedMessage |-> row.redactedMessage,
   aiResponse |-> row.aiResponse,
   success |-> row.success,
   keyVersion |-> row.keyVersion]

\* orderBy(desc(createdAt)): the orders the database may return the rows
\* in, rows of the same createdAt in any order
RECURSIVE orderByDescCreatedAt(_)
orderByDescCreatedAt(rows) ==
  IF rows = {} THEN {<< >>}
  ELSE UNION { { <<first>> \o rest : rest \in orderByDescCreatedAt(rows \ {first}) } :
               first \in {row \in rows :
                            \A other \in rows : row.createdAt >= other.createdAt} }

\* limit(n)
limitRows(rows, n) == SubSeq(rows, 1, IF n < Len(rows) THEN n ELSE Len(rows))

\* what a select over the chosen rows may resolve to: Result.ok(entries),
\* kept with the call it answers
selectResults(op, userId, rows, given, limit) ==
  { [op |-> op, userId |-> userId, given |-> given, limit |-> limit,
     ok |-> TRUE, code |-> "NONE",
     value |-> [i \in 1..Len(limitRows(ordered, limit)) |->
                  auditEntryOf(ordered[i])]] :
    ordered \in orderByDescCreatedAt(rows) }

\* the catch of both reads
readError(op, userId, given, limit) ==
  [op |-> op, userId |-> userId, given |-> given, limit |-> limit,
   ok |-> FALSE, code |-> "INTERNAL_ERROR", value |-> << >>]

\* the rows of the table
tableRows == {auditEntries[i] : i \in 1..Len(auditEntries)}

\* as whereUserId, with the filter left out
whereUserId_Everyone(rows, userId) == rows

\* where(eq(auditEntries.userId, userId))
whereUserId(rows, userId) == {row \in rows : row.userId = userId}

\* a read up to its await: the select is issued with the limit that applies
readCall(op, userId, given, limit) ==
  [pc |-> "selecting",
   read |-> [op |-> op, userId |-> userId, given |-> given, limit |-> limit,
             ok |-> FALSE, code |-> "PENDING", value |-> << >>]]

\* the rows the select of a read chooses from
selectFrom(read, rows) ==
  IF read.op = "readAuditEntriesByUser"
    THEN whereUserId(rows, read.userId)
    ELSE rows

\* read q goes on as p
ReadBecomes(q, p) == (reads (-) SetToBag({q})) (+) SetToBag({p})

\* readAuditEntriesByUser(userId, limit) up to await db.select()
ReadAuditEntriesByUser(userId, limit) ==
  /\ started' = started + 1
  /\ reads' = reads (+) SetToBag({
       readCall("readAuditEntriesByUser", userId, limit, byUserLimit(limit))})
  /\ UNCHANGED <<running, shadow, env, now, circuitState, inflight,
                 auditEntries, consecutive, lastOp, lastRead,
                 service, openedAt>>

\* readAuditEntries(limit) up to await db.select()
ReadAuditEntries(limit) ==
  /\ started' = started + 1
  /\ reads' = reads (+) SetToBag({
       readCall("readAuditEntries", << >>, limit, globalLimit(limit))})
  /\ UNCHANGED <<running, shadow, env, now, circuitState, inflight,
                 auditEntries, consecutive, lastOp, lastRead,
                 service, openedAt>>

\* the database answers the select of read q from the table as it is now,
\* or the select fails; the function stays pending until the answer is
\* delivered
DbSelect(q, throws) ==
  /\ q.pc = "selecting"
  /\ \E answer \in
         IF throws
           THEN {readError(q.read.op, q.read.userId, q.read.given,
                           q.read.limit)}
           ELSE selectResults(q.read.op, q.read.userId,
                              selectFrom(q.read, tableRows), q.read.given,
                              q.read.limit) :
       reads' = ReadBecomes(q, [pc |-> "selected", read |-> answer])
  /\ UNCHANGED <<running, shadow, env, now, circuitState, inflight,
                 auditEntries, started, consecutive, lastOp, lastRead,
                 service, openedAt>>

\* the read resumes with the answer of its select and returns
\* Result.ok(entries), or its catch block returns the error
ReadReturn(q) ==
  /\ q.pc = "selected"
  /\ lastRead' = q.read
  /\ reads' = reads (-) SetToBag({q})
  /\ UNCHANGED <<running, shadow, env, now, circuitState, inflight,
                 auditEntries, started, consecutive, lastOp, service,
                 openedAt>>

\* the reads that have not returned
PendingReads == BagToSet(reads)

\* the row an inquiry of an earlier run of the process left in the table:
\* a message with PII, answered by the backend, stored at the first instant
StoredRow(e) ==
  LET body == CHOOSE b \in Bodies :
                secureInquiryRequestSchema(b) /\ b.userId = <<"u", "1">>
      sanitizeResult == SanitizedBodies[body]
      aiResult == mockAiResponse(
                    downstreamMessage(body.message, sanitizeResult))
      arg == auditArgument(body.userId, body.message, sanitizeResult, aiResult)
      iv == CHOOSE v \in IVs : TRUE
  IN  auditRow(arg, encrypt(e, arg.originalMessage, arg.userId, iv), 1, 1000)

\* the tables the process may find when it starts: empty, or with that row
\* when the environment has the key to write it
StoredTables(e) ==
  {<< >>} \cup
  (IF getMasterKey(e, getCurrentKeyVersion(e)).ok THEN {<<StoredRow(e)>>}
                                                  ELSE {})

\* the process starts on a table that outlives it
InitAudit ==
  /\ env \in Envs
  /\ now = 1000
  /\ circuitState = circuitStateInit
  /\ inflight = EmptyBag
  /\ auditEntries \in StoredTables(env)
  /\ started = 0
  /\ consecutive = 0
  /\ lastOp = [op |-> "init", pre |-> "closed", at |-> Null]
  /\ lastRead = NoRead
  /\ reads = EmptyBag
  /\ running = NoTask
  /\ shadow = [cs |-> circuitStateInit, inflight |-> EmptyBag]
  /\ service = "database"
  /\ openedAt = Null

NextAudit ==
  \/ \E body \in Bodies : started < MaxAuditInquiries /\ ProcessInquiry(body)
  \/ \E r \in Requests, fail \in BOOLEAN : DownstreamComplete(r, fail)
  \/ \E r \in Requests, iv \in IVs : AfterCall(r, iv)
  \/ \E r \in Requests, stored \in BOOLEAN : DbInsert(r, stored)
  \/ \E r \in Requests : AfterAudit(r)
  \/ \E r \in Requests : Respond(r)
  \/ Tick(AuditInstants)
  \/ \E userId \in ReadUserIds, limit \in UserLimits :
       started < MaxAuditInquiries /\ ReadAuditEntriesByUser(userId, limit)
  \/ \E limit \in Limits :
       started < MaxAuditInquiries /\ ReadAuditEntries(limit)
  \/ \E q \in PendingReads, throws \in BOOLEAN : DbSelect(q, throws)
  \/ \E q \in PendingReads : ReadReturn(q)

SpecAudit == InitAudit /\ [][NextAudit]_vars

(***************************************************************************)
(* The pipeline across restarts of the process with another environment    *)
(* (SpecRestart): the audit trail outlives the process                     *)
(***************************************************************************)
\* inquiries in a run with restarts
MaxRestartInquiries == 2

\* environments the process is restarted with: the key version rotated in
\* development, both keys configured in production
RestartEnvs ==
  Envs \cup
  { [APP_ENV |-> "development", AUDIT_KEY_VERSION |-> 2,
     keys |-> <<"absent", "absent">>],
    [APP_ENV |-> "production", AUDIT_KEY_VERSION |-> 2,
     keys |-> <<"hex64", "hex64">>] }

\* the process, with no inquiry in flight, is stopped and started with the
\* environment e: the breaker singleton is new, the table is as it was
Restart(e) ==
  /\ inflight = EmptyBag
  /\ e # env
  /\ env' = e
  /\ circuitState' = circuitStateInit
  /\ openedAt' = opened(circuitState, circuitState', now)
  /\ consecutive' = 0
  /\ lastOp' = [op |-> "init", pre |-> "closed", at |-> Null]
  /\ UNCHANGED <<running, shadow, now, inflight, auditEntries, lastRead, reads, started, service>>

NextRestart ==
  \/ \E body \in Bodies : started < MaxRestartInquiries /\ ProcessInquiry(body)
  \/ \E r \in Requests, fail \in BOOLEAN : DownstreamComplete(r, fail)
  \/ \E r \in Requests, iv \in IVs : AfterCall(r, iv)
  \/ \E r \in Requests, stored \in BOOLEAN : DbInsert(r, stored)
  \/ \E r \in Requests : AfterAudit(r)
  \/ \E r \in Requests : Respond(r)
  \/ Tick(EarlyInstants)
  \/ \E e \in RestartEnvs : Restart(e)

SpecRestart == Init /\ [][NextRestart]_vars

(***************************************************************************)
(* Direct use of services/auditLog.ts (SpecAuditLog): writeAuditEntry of    *)
(* each copy of the service the repository holds: the database one, the    *)
(* file one that imports encrypt from utils/crypto, and the file one with  *)
(* its own encrypt, each call split at the awaits of its code              *)
(***************************************************************************)
\* writeAuditEntry calls in a run
MaxServiceWrites == 2

\* the copies of the service
Services == {"database", "file", "fileStub"}

\* arguments processInquiry gives to writeAuditEntry: each valid body, one
\* with an answer, the other with a rejection
AuditArguments ==
  { auditArgument(body.userId, body.message, SanitizedBodies[body],
                  IF body.userId = <<"u", "1">>
                    THEN mockAiResponse(
                           downstreamMessage(body.message, SanitizedBodies[body]))
                    ELSE serviceUnavailableError) :
      body \in {b \in Bodies : secureInquiryRequestSchema(b)} }

\* the local encrypt(data) of the file copy of auditLog.ts: the UTF-8 bytes
\* of the text in base64, with random bytes for iv and tag
encryptStub(data, iv, tag) ==
  [ok |-> TRUE,
   ciphertext |-> base64Encode(utf8Encode(data)),
   iv |-> base64Encode(iv),
   tag |-> base64Encode(tag),
   keyVersion |-> 1]

\* the encrypt call of writeAuditEntry in each copy of the service
serviceEncrypt(svc, e, arg, iv, tag) ==
  IF svc = "fileStub"
    THEN encryptStub(arg.originalMessage, iv, tag)
    ELSE encrypt(e, arg.originalMessage, arg.userId, iv)

InitAuditLog ==
  /\ env \in RestartEnvs
  /\ now = 1000
  /\ circuitState = circuitStateInit
  /\ inflight = EmptyBag
  /\ auditEntries = << >>
  /\ started = 0
  /\ consecutive = 0
  /\ lastOp = [op |-> "init", pre |-> "closed", at |-> Null]
  /\ lastRead = NoRead
  /\ reads = EmptyBag
  /\ running = NoTask
  /\ shadow = [cs |-> circuitStateInit, inflight |-> EmptyBag]
  /\ service \in Services
  /\ openedAt = Null

\* the message of the Error a rejected mkdir throws
mkdirErrorMessage == <<"mkdir failed">>

\* writeAuditEntry(arg) up to its first await. The database copy encrypts
\* and issues the insert, or, encrypt having thrown, its catch block
\* returns the error; the file copies await ensureDataDirectory() first.
\* entryId stands for the randomUUID() a file copy draws for the entry: the
\* number of the call, which no other call has
WriteAuditEntry(arg, iv, tag) ==
  LET enc == serviceEncrypt(service, env, arg, iv, tag)
      r == [NewRequest EXCEPT !.auditCalls = <<arg>>]
  IN  /\ started < MaxServiceWrites
      /\ started' = started + 1
      /\ inflight' = inflight (+) SetToBag({
           IF service = "database"
             THEN [r EXCEPT
                     !.payload = IF enc.ok THEN enc ELSE NoPayload,
                     !.auditResult = IF enc.ok THEN "none" ELSE "error",
                     !.auditError =
                        IF enc.ok THEN NoResult
                        ELSE writeAuditEntryCatch(encryptErrorMessage(
                               env, arg.userId, getCurrentKeyVersion(env))),
                     !.pc = afterEncrypt(enc)]
             ELSE [r EXCEPT !.pc = "mkdir", !.entryId = started + 1]})
      /\ UNCHANGED <<running, shadow, env, now, circuitState, auditEntries,
                     lastRead, reads, consecutive, lastOp, service, openedAt>>

\* a file copy after await ensureDataDirectory(): the error of mkdir is
\* returned, or the timestamp is taken, the message encrypted and the
\* append issued, or, encrypt having thrown, the catch block returns
MkdirAnswered(r, dirOk, iv, tag) ==
  LET arg == r.auditCalls[Len(r.auditCalls)]
      enc == serviceEncrypt(service, env, arg, iv, tag)
  IN  /\ r.pc = "mkdir"
      /\ inflight' = Becomes(r,
           IF ~dirOk
             THEN [r EXCEPT !.pc = "audited",
                            !.auditResult = "error",
                            !.auditError = ErrorsInternal(mkdirErrorMessage)]
             ELSE [r EXCEPT
                     !.timestamp = now,
                     !.payload = IF enc.ok THEN enc ELSE NoPayload,
                     !.auditResult = IF enc.ok THEN "none" ELSE "error",
                     !.auditError =
                        IF enc.ok THEN NoResult
                        ELSE writeAuditEntryCatch(encryptErrorMessage(
                               env, arg.userId, getCurrentKeyVersion(env))),
                     !.pc = IF enc.ok THEN "appending" ELSE "audited"])
      /\ UNCHANGED <<running, shadow, env, now, circuitState, auditEntries,
                     lastRead, reads, started, consecutive, lastOp, service,
                     openedAt>>

\* the file system answers fs.appendFile: the line is at the end of the
\* file, with the id and the timestamp the call took before, or the append
\* fails
AppendFile(r, stored) ==
  LET arg == r.auditCalls[Len(r.auditCalls)]
  IN  /\ r.pc = "appending"
      /\ auditEntries' =
           IF stored
             THEN Append(auditEntries,
                         auditRow(arg, r.payload, r.entryId, r.timestamp))
             ELSE auditEntries
      /\ inflight' = Becomes(r,
           [r EXCEPT !.pc = "audited",
                     !.auditResult = IF stored THEN "ok" ELSE "error",
                     !.auditError =
                        IF stored THEN NoResult
                        ELSE writeAuditEntryCatch(insertErrorMessage)])
      /\ UNCHANGED <<running, shadow, env, now, circuitState, started,
                     consecutive, lastOp, lastRead, reads, service, openedAt>>

\* writeAuditEntry returns its Result to the caller
WriteReturn(r) ==
  /\ r.pc = "audited"
  /\ inflight' = inflight (-) SetToBag({r})
  /\ lastOp' = [op |-> IF r.auditResult = "ok" THEN "written"
                                               ELSE "writeFailed",
                pre |-> circuitState.state, at |-> now]
  /\ UNCHANGED <<running, shadow, env, now, circuitState, auditEntries,
                 lastRead, reads, started, consecutive, service, openedAt>>

NextAuditLog ==
  \/ \E arg \in AuditArguments, iv \in IVs, tag \in IVs :
       WriteAuditEntry(arg, iv, tag)
  \/ \E r \in Requests, dirOk \in BOOLEAN, iv \in IVs, tag \in IVs :
       MkdirAnswered(r, dirOk, iv, tag)
  \/ \E r \in Requests, stored \in BOOLEAN : AppendFile(r, stored)
  \/ \E r \in Requests, stored \in BOOLEAN : DbInsert(r, stored)
  \/ \E r \in Requests : WriteReturn(r)
  \/ Tick(AuditInstants)

SpecAuditLog == InitAuditLog /\ [][NextAuditLog]_vars

\* The breaker: concurrent direct calls of callMockAi, status reads, resets
InitBreaker ==
  /\ Init
  /\ env.APP_ENV = "development"

NextBreaker ==
  \/ \E message \in CallTexts : started < MaxCalls /\ Invoke(message)
  \/ \E r \in Requests, fail \in BOOLEAN : DownstreamComplete(r, fail)
  \/ \E r \in Requests : Return(r)
  \/ GetStatus
  \/ Reset
  \/ Tick(Instants)

SpecBreaker == InitBreaker /\ [][NextBreaker]_vars

(***************************************************************************)
(* The breaker with the test utilities of mockAi.ts (SpecTesting):         *)
(* __testing__ hands the singleton to the test suite, which assigns its    *)
(* fields. The module says DO NOT USE IN PRODUCTION; no code of the        *)
(* service calls it, so the other specifications leave the action out      *)
(***************************************************************************)
\* Object.assign(cs, partial): the fields partial has are written over cs
ObjectAssign(cs, partial) ==
  [k \in DOMAIN cs |-> IF k \in DOMAIN partial THEN partial[k] ELSE cs[k]]

\* the objects the test suite gives to setState at time t, and the fields
\* it assigns through getState() (state.failures = 1, 2, 3)
TestingPartials(t) ==
  { [state |-> "open", failures |-> 3, lastFailure |-> t],
    [failures |-> 1],
    [failures |-> 2],
    [failures |-> 3],
    [state |-> "open", failures |-> 3, lastFailure |-> t - 31000],
    [state |-> "open", failures |-> 3, lastFailure |-> t - 29000],
    [state |-> "half-open", failures |-> 3, lastFailure |-> t - 31000],
    [state |-> "closed", failures |-> 0, lastSuccess |-> t],
    [state |-> "open", failures |-> 4, lastFailure |-> t],
    [state |-> "open", failures |-> 5, lastFailure |-> t, lastSuccess |-> t],
    [state |-> "closed", failures |-> 1, lastFailure |-> t,
     lastSuccess |-> t - 1000] }

\* __testing__.setState(partial), or an assignment to a field of the
\* object __testing__.getState() returned
TestingSetState(partial) ==
  /\ circuitState' = ObjectAssign(circuitState, partial)
  /\ openedAt' = opened(circuitState, circuitState', now)
  /\ lastOp' = Op("setState")
  /\ UNCHANGED <<running, shadow, env, now, inflight, auditEntries, lastRead,
                 reads, started, consecutive, service>>

\* direct calls in a run of the test suite
MaxTestingCalls == 2

NextTesting ==
  \/ \E message \in CallTexts : started < MaxTestingCalls /\ Invoke(message)
  \/ \E r \in Requests, fail \in BOOLEAN : DownstreamComplete(r, fail)
  \/ \E r \in Requests : Return(r)
  \/ GetStatus
  \/ Reset
  \/ Tick(EarlyInstants)
  \/ \E partial \in TestingPartials(now) : TestingSetState(partial)

SpecTesting == InitBreaker /\ [][NextTesting]_vars

(***************************************************************************)
(* The breaker with a clock that keeps advancing and callers that keep     *)
(* invoking or reading status (SpecLive)                                   *)
(***************************************************************************)
\* direct calls in a run of SpecLive
MaxLiveCalls == 4

\* instants the clock may advance to whatever the breaker holds
LiveInstants == {t \in Instants : t <= 5000}

\* the instant at which something becomes due: the reset timeout of an
\* open breaker ends
DueInstants ==
  IF circuitState.state = "open" /\ circuitState.lastFailure # Null
    THEN {circuitState.lastFailure + RESET_TIMEOUT}
    ELSE {}

\* the clock advances, and can always reach what is due
TickLive == Tick(LiveInstants \cup DueInstants)

NextLive ==
  \/ \E message \in CallTexts : started < MaxLiveCalls /\ Invoke(message)
  \/ \E r \in Requests, fail \in BOOLEAN : DownstreamComplete(r, fail)
  \/ \E r \in Requests : Return(r)
  \/ GetStatus
  \/ Reset
  \/ TickLive

\* the clock keeps advancing, status keeps being read
SpecLive ==
  /\ InitBreaker
  /\ [][NextLive]_vars
  /\ WF_vars(TickLive)
  /\ WF_vars(GetStatus)

(***************************************************************************)
(* The breaker statement by statement (SpecAtomic): one task is on the     *)
(* stack at a time and runs until it awaits or returns; a position is the  *)
(* line of mockAi.ts about to execute                                      *)
(***************************************************************************)
\* as Awaits, with one more await after the increment in recordFailure
Awaits_InRecordFailure == {"delay", "L67"}

\* the positions at which callMockAi awaits: await simulateDelay()
Awaits == {"delay"}

\* the statement at position r.pc, executed at time t on breaker cs
Exec(r, cs, t) ==
  CASE r.pc = "L110" ->
         [r |-> [r EXCEPT !.pc = "L113", !.startTime = t], cs |-> cs]
    [] r.pc = "L113" ->
         [r |-> [r EXCEPT !.pc = "L116"], cs |-> checkCircuitTransition(cs, t)]
    [] r.pc = "L116" ->
         [r |-> IF cs.state = "open"
                  THEN [r EXCEPT !.pc = "aiDone", !.checked = cs.state,
                                 !.aiResult = serviceUnavailableError,
                                 !.resolvedAt = t]
                  ELSE [r EXCEPT !.pc = "delay", !.checked = cs.state],
          cs |-> cs]
    [] r.pc = "L51" ->
         [r |-> [r EXCEPT !.pc = "L53", !.outcomes = Append(@, "success")],
          cs |-> [cs EXCEPT !.lastSuccess = t]]
    [] r.pc = "L53" ->
         [r |-> [r EXCEPT !.pc = IF cs.state = "half-open" THEN "L55"
                                 ELSE IF cs.state = "closed" THEN "L58"
                                 ELSE "L140"],
          cs |-> cs]
    [] r.pc = "L55" ->
         [r |-> [r EXCEPT !.pc = "L56"], cs |-> [cs EXCEPT !.state = "closed"]]
    [] r.pc = "L56" ->
         [r |-> [r EXCEPT !.pc = "L140"], cs |-> [cs EXCEPT !.failures = 0]]
    [] r.pc = "L58" ->
         [r |-> [r EXCEPT !.pc = "L140"], cs |-> [cs EXCEPT !.failures = 0]]
    [] r.pc = "L140" ->
         [r |-> [r EXCEPT !.pc = "aiDone", !.aiResult = mockAiResponse(r.sent),
                          !.recorded = "success", !.resolvedAt = t],
          cs |-> cs]
    [] r.pc = "L66" ->
         [r |-> [r EXCEPT !.pc = "L67", !.outcomes = Append(@, "failure")],
          cs |-> [cs EXCEPT !.failures = cs.failures + 1]]
    [] r.pc = "L67" ->
         [r |-> [r EXCEPT !.pc = "L69"], cs |-> [cs EXCEPT !.lastFailure = t]]
    [] r.pc = "L69" ->
         [r |-> [r EXCEPT !.pc = IF cs.state = "half-open" THEN "L71"
                                 ELSE IF cs.failures >= FAILURE_THRESHOLD
                                        THEN "L74"
                                 ELSE "L150"],
          cs |-> cs]
    [] r.pc = "L71" ->
         [r |-> [r EXCEPT !.pc = "L150"], cs |-> [cs EXCEPT !.state = "open"]]
    [] r.pc = "L74" ->
         [r |-> [r EXCEPT !.pc = "L150"], cs |-> [cs EXCEPT !.state = "open"]]
    [] r.pc = "L150" ->
         [r |-> [r EXCEPT !.pc = "aiDone", !.aiResult = aiServiceError,
                          !.recorded = "failure", !.resolvedAt = t],
          cs |-> cs]
    [] r.pc = "L166" ->
         [r |-> [r EXCEPT !.pc = "L168"], cs |-> checkCircuitTransition(cs, t)]
    [] r.pc = "L168" ->
         [r |-> NoTask, cs |-> cs]
    [] r.pc = "L180" ->
         [r |-> [r EXCEPT !.pc = "L181"], cs |-> [cs EXCEPT !.state = "closed"]]
    [] r.pc = "L181" ->
         [r |-> [r EXCEPT !.pc = "L182"], cs |-> [cs EXCEPT !.failures = 0]]
    [] r.pc = "L182" ->
         [r |-> [r EXCEPT !.pc = "L183"], cs |-> [cs EXCEPT !.lastFailure = Null]]
    [] r.pc = "L183" ->
         [r |-> NoTask, cs |-> [cs EXCEPT !.lastSuccess = Null]]

\* a caller calls callMockAi(message): the call goes on the stack
CallStart(message) ==
  LET cs == checkCircuitTransition(shadow.cs, now)
  IN  /\ running = NoTask
      /\ started < MaxAtomicCalls
      /\ BagCardinality(inflight) < MaxInFlight
      /\ started' = started + 1
      /\ running' = [NewRequest EXCEPT !.pc = "L110", !.called = TRUE,
                                       !.sent = message]
      /\ shadow' = [cs |-> cs,
                    inflight |-> shadow.inflight (+) SetToBag({
                       callMockAiEnter(NewRequest, message, cs, now)})]
      /\ UNCHANGED <<env, now, circuitState, inflight, auditEntries, lastRead, reads,
                     consecutive, lastOp, service, openedAt>>

\* the health controller calls getCircuitBreakerStatus()
StatusStart ==
  /\ running = NoTask
  /\ running' = [NewRequest EXCEPT !.pc = "L166"]
  /\ shadow' = [shadow EXCEPT !.cs = checkCircuitTransition(@, now)]
  /\ UNCHANGED <<env, now, circuitState, inflight, auditEntries, lastRead, reads, started,
                 consecutive, lastOp, service, openedAt>>

\* resetCircuitBreaker() is called
ResetStart ==
  /\ running = NoTask
  /\ running' = [NewRequest EXCEPT !.pc = "L180"]
  /\ shadow' = [shadow EXCEPT !.cs = resetCircuitBreaker(@)]
  /\ UNCHANGED <<env, now, circuitState, inflight, auditEntries, lastRead, reads, started,
                 consecutive, lastOp, service, openedAt>>

\* the task on the stack executes its next statement; at an await or a
\* return of callMockAi it leaves the stack
Step ==
  LET e == Exec(running, circuitState, now)
  IN  /\ running # NoTask
      /\ circuitState' = e.cs
      /\ openedAt' = opened(circuitState, circuitState', now)
      /\ IF e.r.pc \in Awaits \cup {"aiDone"}
           THEN /\ running' = NoTask
                /\ inflight' = inflight (+) SetToBag({e.r})
           ELSE /\ running' = e.r
                /\ inflight' = inflight
      /\ UNCHANGED <<env, now, auditEntries, lastRead, reads, started, consecutive, lastOp, shadow, service>>

\* as afterDelay, with a catch block that returns the error at once
afterDelay_NoRecord(fail) == IF fail THEN "L150" ELSE "L51"

\* where callMockAi goes on after the delay: shouldFail() throws into the
\* catch block, which starts with recordFailure(); otherwise the try block
\* goes on to recordSuccess()
afterDelay(fail) == IF fail THEN "L66" ELSE "L51"

\* an awaiting call is resumed: after the simulated delay with the value of
\* shouldFail(), which selects the try or the catch path; the timer fires
\* whatever Date.now() shows
Resume(r, fail) ==
  /\ running = NoTask
  /\ r.pc \in Awaits
  /\ IF r.pc = "delay"
       THEN /\ running' = [r EXCEPT !.pc = afterDelay(fail)]
            /\ shadow' =
                 [cs |-> IF fail THEN recordFailure(shadow.cs, now)
                                 ELSE recordSuccess(shadow.cs, now),
                  inflight |-> (shadow.inflight (-) SetToBag({r}))
                                 (+) SetToBag({callMockAiLeave(r, fail, now)})]
       ELSE /\ running' = r
            /\ shadow' = shadow
  /\ inflight' = inflight (-) SetToBag({r})
  /\ UNCHANGED <<env, now, circuitState, auditEntries, lastRead, reads, started, consecutive, lastOp, service, openedAt>>

\* the caller has its result
Collect(r) ==
  /\ running = NoTask
  /\ r.pc = "aiDone"
  /\ inflight' = inflight (-) SetToBag({r})
  /\ shadow' = [shadow EXCEPT !.inflight = @ (-) SetToBag({r})]
  /\ UNCHANGED <<env, now, circuitState, auditEntries, lastRead, reads, started, consecutive,
                 lastOp, running, service, openedAt>>

\* the clock advances between two tasks
TickIdle(instants) ==
  /\ running = NoTask
  /\ Tick(instants)

NextAtomic ==
  \/ \E message \in CallTexts : CallStart(message)
  \/ StatusStart
  \/ ResetStart
  \/ Step
  \/ \E r \in Requests, fail \in BOOLEAN : Resume(r, fail)
  \/ \E r \in Requests : Collect(r)
  \/ TickIdle(Instants)

SpecAtomic == InitBreaker /\ [][NextAtomic]_vars

(***************************************************************************)
(* Direct use of utils/crypto.ts (SpecCrypto): encrypt and decrypt calls,  *)
(* and restarts of the process with another key configuration              *)
(***************************************************************************)
\* payloads kept in a run
MaxPayloads == 1

\* key versions in use
KeyVersions == {1, 2}

\* what a master key variable can hold: nothing, 64 hexadecimal
\* characters, a string of another length
KeySettings == {"absent", "hex64", "short"}

\* env.ts lets the process start with this environment
EnvValid(e) ==
  /\ e.keys[1] \in {"absent", "hex64"}
  /\ (e.APP_ENV = "production") => (e.keys[1] # "absent")

CryptoEnvs ==
  { e \in [APP_ENV : {"development", "production", "test"},
           AUDIT_KEY_VERSION : KeyVersions,
           keys : {<<k1, k2>> : k1 \in KeySettings, k2 \in KeySettings}] :
      EnvValid(e) }

\* plaintexts: text, a surrogate pair, an unpaired surrogate
Plaintexts == { <<"h", "i">>, <<"D800", "DC00">>, <<"a", "D800">> }

\* a userId whose info string has one byte more than hkdfSync accepts
LongUserId == [i \in 1..(HKDF_INFO_MAX - 7) |-> "x"]

\* userIds: text, two unpaired surrogates, an overlong one
UserIds == { <<"u", "1">>, <<"D800">>, <<"DBFF">>, LongUserId }

\* userIds given to decrypt
Readers == UserIds \ {LongUserId}

InitCrypto ==
  /\ env \in CryptoEnvs
  /\ now = 1000
  /\ circuitState = circuitStateInit
  /\ inflight = EmptyBag
  /\ auditEntries = << >>
  /\ started = 0
  /\ consecutive = 0
  /\ lastOp = [op |-> "init", pre |-> "closed", at |-> Null]
  /\ lastRead = NoRead
  /\ reads = EmptyBag
  /\ running = NoTask
  /\ shadow = [cs |-> circuitStateInit, inflight |-> EmptyBag]
  /\ service = "database"
  /\ openedAt = Null

\* encrypt(plaintext, userId, keyVersion) is called; keyVersion Null is
\* the omitted argument
EncryptCall(plaintext, userId, keyVersion, iv) ==
  LET payload == IF keyVersion = Null
                   THEN encrypt(env, plaintext, userId, iv)
                   ELSE encryptVersion(env, plaintext, userId, keyVersion, iv)
  IN  /\ BagCardinality(inflight) < MaxPayloads
      /\ inflight' = inflight (+) SetToBag({
           [NewRequest EXCEPT
              !.pc = IF payload.ok THEN "encrypted" ELSE "encryptThrew",
              !.body = [userId |-> userId, message |-> plaintext],
              !.payload = payload]})
      /\ UNCHANGED <<running, shadow, env, now, circuitState, auditEntries, lastRead, reads,
                     started, consecutive, lastOp, service, openedAt>>

\* decrypt(payload, userId) is called on a payload encrypt returned
DecryptCall(r, userId) ==
  /\ r.pc = "encrypted"
  /\ inflight' = Becomes(r,
       [r EXCEPT !.pc = "decrypted", !.reader = userId,
                 !.decrypted = decrypt(env, r.payload, userId)])
  /\ UNCHANGED <<running, shadow, env, now, circuitState, auditEntries, lastRead, reads,
                 started, consecutive, lastOp, service, openedAt>>

\* the caller drops a payload and what it knows about it
Discard(r) ==
  /\ r.pc \in {"encryptThrew", "decrypted"}
  /\ inflight' = inflight (-) SetToBag({r})
  /\ UNCHANGED <<running, shadow, env, now, circuitState, auditEntries, lastRead, reads,
                 started, consecutive, lastOp, service, openedAt>>

\* the process is restarted with another AUDIT_KEY_VERSION
Rotate(version) ==
  /\ version # env.AUDIT_KEY_VERSION
  /\ env' = [env EXCEPT !.AUDIT_KEY_VERSION = version]
  /\ UNCHANGED <<running, shadow, now, circuitState, inflight, auditEntries, lastRead, reads,
                 started, consecutive, lastOp, service, openedAt>>

\* the process is restarted with a master key variable set or unset
SetKey(version, setting) ==
  /\ setting # env.keys[version]
  /\ EnvValid([env EXCEPT !.keys[version] = setting])
  /\ env' = [env EXCEPT !.keys[version] = setting]
  /\ UNCHANGED <<running, shadow, now, circuitState, inflight, auditEntries, lastRead, reads,
                 started, consecutive, lastOp, service, openedAt>>

NextCrypto ==
  \/ \E plaintext \in Plaintexts, userId \in UserIds,
        keyVersion \in KeyVersions \cup {Null}, iv \in IVs :
       EncryptCall(plaintext, userId, keyVersion, iv)
  \/ \E r \in Requests, userId \in Readers : DecryptCall(r, userId)
  \/ \E r \in Requests : Discard(r)
  \/ \E version \in KeyVersions : Rotate(version)
  \/ \E version \in KeyVersions, setting \in KeySettings :
       SetKey(version, setting)

SpecCrypto == InitCrypto /\ [][NextCrypto]_vars

(***************************************************************************)
(* Direct use of services/sanitizer.ts (SpecSanitizer): a text is put      *)
(* together from fragments and given to sanitize                           *)
(***************************************************************************)
\* fragments in a text
MaxFragments == 4

\* an email, the two SSN forms, card numbers without and with separators,
\* and single characters that join or break them
Fragments ==
  { <<"a", "@", "b", ".", "c", "c">>,
    <<"1", "2", "3", "-", "4", "5", "-", "6", "7", "8", "9">>,
    <<"1", "2", "3", "4", "5", "6", "7", "8", "9">>,
    <<"4", "1", "1", "1", "1", "1", "1", "1", "1", "1", "1", "1", "1">>,
    <<"4", "1", "1", "1", "-", "1", "1", "1", "1", " ", "1", "1", "1", "1",
      "-", "1", "1", "1", "1">>,
    <<" ">>, <<"-">>, <<"x">>, <<"7">>, <<"@">> }

InitSanitizer ==
  /\ env \in {e \in Envs : e.APP_ENV = "development"}
  /\ now = 1000
  /\ circuitState = circuitStateInit
  /\ inflight = SetToBag({[NewRequest EXCEPT !.pc = "text"]})
  /\ auditEntries = << >>
  /\ started = 0
  /\ consecutive = 0
  /\ lastOp = [op |-> "init", pre |-> "closed", at |-> Null]
  /\ lastRead = NoRead
  /\ reads = EmptyBag
  /\ running = NoTask
  /\ shadow = [cs |-> circuitStateInit, inflight |-> EmptyBag]
  /\ service = "database"
  /\ openedAt = Null

\* the caller's text grows by a fragment
AddFragment(r, fragment) ==
  /\ r.pc = "text"
  /\ started < MaxFragments
  /\ started' = started + 1
  /\ inflight' = Becomes(r, [r EXCEPT !.body.message = @ \o fragment])
  /\ UNCHANGED <<running, shadow, env, now, circuitState, auditEntries, lastRead, reads,
                 consecutive, lastOp, service, openedAt>>

\* sanitize(message) is called
SanitizeCall(r) ==
  /\ r.pc = "text"
  /\ inflight' = Becomes(r,
       [r EXCEPT !.pc = "sanitized",
                 !.sanitizeResult = sanitize(r.body.message)])
  /\ UNCHANGED <<running, shadow, env, now, circuitState, auditEntries, lastRead, reads,
                 started, consecutive, lastOp, service, openedAt>>

NextSanitizer ==
  \/ \E r \in Requests, fragment \in Fragments : AddFragment(r, fragment)
  \/ \E r \in Requests : SanitizeCall(r)

SpecSanitizer == InitSanitizer /\ [][NextSanitizer]_vars

(***************************************************************************)
(* Steps, as seen from outside                                             *)
(***************************************************************************)
\* this step is a callMockAi call coming back from its delay with the
\* outcome kind ("success" or "failure") recorded
RecordedStep(kind) ==
  \E r \in BagToSet(inflight), q \in BagToSet(inflight') :
    /\ r.pc = "delay"
    /\ q.pc = "aiDone"
    /\ q.recorded = kind
    /\ q.startTime = r.startTime
    /\ inflight' = (inflight (-) SetToBag({r})) (+) SetToBag({q})

\* this step is a callMockAi call arriving; q is the call
ArrivalOf(q) ==
  /\ started' = started + 1
  /\ q.called
  /\ inflight' = inflight (+) SetToBag({q})

(***************************************************************************)
(* Properties of the pipeline (Spec)                                       *)
(***************************************************************************)
\* C1: every inquiry that passed validation has had writeAuditEntry called
\* for it by the time processInquiry returns, whatever callMockAi returned
\* (success, 503 rejection, 500 downstream error).
C1_AuditOnEveryOutcome ==
  \A r \in Requests :
    (r.pc = "done" /\ secureInquiryRequestSchema(r.body))
      => Len(r.auditCalls) >= 1

\* C2: the text given to callMockAi and the message text of the response
\* are the redacted output of sanitize; the original message goes only into
\* the originalMessage argument of writeAuditEntry.
C2_OnlyRedactedLeaves ==
  \A r \in Requests :
    LET redacted == SanitizedBodies[r.body].redactedMessage
    IN  /\ r.called => (r.sent = redacted)
        /\ (r.pc = "done" /\ r.response.status = 200)
             => /\ r.response.redactedMessage = redacted
                /\ r.response.aiResponse =
                     <<"This is a mock AI response", Len(redacted)>>
        /\ (r.pc = "done" /\ r.response.status # 200)
             => r.response.redactedMessage = << >>
        /\ \A i \in 1..Len(r.auditCalls) :
             /\ r.auditCalls[i].originalMessage = r.body.message
             /\ r.auditCalls[i].redactedMessage = redacted

\* an inquiry whose message held PII was answered 200 with the redacted
\* text, and the downstream call got the redacted text
C2_Witness ==
  \E r \in Requests :
    /\ r.pc = "done"
    /\ r.response.status = 200
    /\ r.sanitizeResult.redactedItems # << >>
    /\ r.sent # r.body.message
    /\ r.response.redactedMessage # r.body.message
    /\ Len(r.auditCalls) = 1

(***************************************************************************)
(* Properties of the breaker (SpecBreaker)                                 *)
(***************************************************************************)
\* what C3 asks of one step
C3_Step ==
  circuitState.state = "closed" =>
    /\ circuitState'.state \in {"closed", "open"}
    /\ (circuitState'.state = "open") <=>
         (RecordedStep("failure") /\ consecutive' = 3)
    /\ (circuitState'.state = "open") => (circuitState'.failures = 3)

\* C3: from CLOSED the breaker opens exactly at the recording of the third
\* failure in a row (no success or reset in between), which brings
\* failureCount to 3; any other step from CLOSED leaves it CLOSED.
C3_OpensAtThirdFailure == [][C3_Step]_vars

\* the third failure in a row has just opened a CLOSED breaker
C3_Witness ==
  /\ lastOp.op = "recordFailure"
  /\ lastOp.pre = "closed"
  /\ circuitState.state = "open"
  /\ circuitState.failures = 3
  /\ consecutive = 3

\* C4: callMockAi returns SERVICE_UNAVAILABLE (503, 'Service Busy') exactly
\* when the state after the lazy check was OPEN, and AI_SERVICE_ERROR (500)
\* exactly when the call was attempted and its failure recorded.
C4_ErrorKinds ==
  \A r \in Requests :
    r.pc = "aiDone" =>
      /\ (r.checked = "open") <=>
           (r.aiResult = [ok |-> FALSE, status |-> 503,
                          code |-> "SERVICE_UNAVAILABLE",
                          message |-> <<"Service Busy">>])
      /\ (r.checked = "open") <=> (r.aiResult.status = 503)
      /\ (r.recorded = "failure") <=>
           (r.aiResult.code = "AI_SERVICE_ERROR" /\ r.aiResult.status = 500)
      /\ (r.recorded = "failure") => (r.checked \in {"closed", "half-open"})
      /\ (r.recorded = "success") <=> r.aiResult.ok

\* one call was rejected with 503 while another had failed with 500
C4_Witness ==
  \E r, q \in Requests :
    /\ r.pc = "aiDone" /\ r.aiResult.code = "SERVICE_UNAVAILABLE"
    /\ q.pc = "aiDone" /\ q.aiResult.code = "AI_SERVICE_ERROR"

\* what C5 asks of one step
C5_Step ==
  \A q \in BagToSet(inflight') :
    (ArrivalOf(q) /\ circuitState'.state = "open") =>
      /\ circuitState' = circuitState
      /\ consecutive' = consecutive
      /\ q.pc = "aiDone"
      /\ q.recorded = "none"
      /\ q.resolvedAt = q.startTime
      /\ q.aiResult.status = 503

\* C5: a call that finds the breaker OPEN after the lazy check returns in
\* the same step: no delay, no outcome recorded, breaker state unchanged.
C5_RejectionTouchesNothing == [][C5_Step]_vars

\* a call has just been rejected by an OPEN breaker
C5_Witness ==
  /\ lastOp.op = "reject"
  /\ lastOp.pre = "open"
  /\ circuitState.state = "open"
  /\ circuitState.failures >= 3
  /\ \E r \in Requests : r.pc = "aiDone" /\ r.aiResult.status = 503

\* what C6 asks of one step
C6_Step ==
  /\ (circuitState.state = "open" /\ circuitState'.state = "half-open") =>
       /\ lastOp'.pre = "open"
       /\ lastOp'.at = now
       /\ lastOp'.op \in {"getStatus", "admit"}
       /\ now - circuitState.lastFailure >= 30000
       /\ circuitState' = [circuitState EXCEPT !.state = "half-open"]
  /\ (now' # now) => (circuitState' = circuitState)

\* C6: OPEN becomes HALF_OPEN only in a status read or an arriving call, only
\* when now - lastFailure >= 30000, changing the state field alone; a read
\* or arrival made when that much time has passed never leaves it OPEN; the
\* clock advancing changes nothing in the breaker.
C6_LazyHalfOpen ==
  /\ [][C6_Step]_vars
  /\ []((lastOp.op \in {"getStatus", "admit", "reject"}
           /\ circuitState.state = "open")
          => lastOp.at - circuitState.lastFailure < 30000)

\* a status read made exactly 30000 ms after the last failure found the
\* breaker OPEN and left it HALF_OPEN
C6_Witness ==
  /\ lastOp.op = "getStatus"
  /\ lastOp.pre = "open"
  /\ circuitState.state = "half-open"
  /\ lastOp.at - circuitState.lastFailure = 30000

\* what C7 asks of one step
C7_Step ==
  /\ (RecordedStep("success") /\ circuitState.state \in {"closed", "half-open"})
       => (circuitState'.state = "closed" /\ circuitState'.failures = 0)
  /\ (circuitState.state # "closed" /\ circuitState'.state = "closed")
       => (circuitState'.failures = 0)

\* C7: a success recorded in CLOSED or HALF_OPEN leaves the breaker CLOSED
\* with failureCount 0, and every step into CLOSED leaves failureCount 0.
C7_SuccessCloses == [][C7_Step]_vars

\* a success recorded in HALF_OPEN has just closed the breaker
C7_Witness ==
  /\ lastOp.op = "recordSuccess"
  /\ lastOp.pre = "half-open"
  /\ circuitState.state = "closed"
  /\ circuitState.failures = 0

\* what C8 asks of one step
C8_Step ==
  (RecordedStep("failure") /\ circuitState.state = "half-open") =>
    /\ circuitState'.state = "open"
    /\ circuitState'.lastFailure = now

\* C8: a failure recorded in HALF_OPEN opens the breaker at once and sets
\* lastFailure to the recording time.
C8_HalfOpenFailureReopens == [][C8_Step]_vars

\* a failure recorded in HALF_OPEN has just re-opened the breaker
C8_Witness ==
  /\ lastOp.op = "recordFailure"
  /\ lastOp.pre = "half-open"
  /\ circuitState.state = "open"
  /\ circuitState.lastFailure = lastOp.at
  /\ circuitState.failures > 3

\* C9: right after resetCircuitBreaker the breaker is as at process start:
\* CLOSED, failureCount 0, lastFailure and lastSuccess absent.
C9_ResetIsInitial ==
  lastOp.op = "reset" =>
    /\ circuitState = [state |-> "closed", failures |-> 0,
                       lastFailure |-> Null, lastSuccess |-> Null]
    /\ circuitState = circuitStateInit

\* a reset has just been applied to an OPEN breaker that had recorded a
\* success and failures
C9_Witness ==
  /\ lastOp.op = "reset"
  /\ lastOp.pre = "open"
  /\ circuitState.state = "closed"
  /\ \E r \in Requests : r.recorded = "success"
  /\ \E r \in Requests : r.recorded = "failure"

(***************************************************************************)
(* Properties of the breaker statement by statement (SpecAtomic)           *)
(***************************************************************************)
\* C10: whenever the event loop is between two tasks, so whenever another
\* call can run, the breaker and every call in flight are exactly as the
\* whole operations (lazy check with its admit/reject decision, outcome
\* recording, reset), applied one at a time in the order they began, leave
\* them: no operation is seen partly applied, none worked on a state
\* another call changed under it.
C10_OperationsAtomic ==
  running = NoTask =>
    /\ circuitState = shadow.cs
    /\ inflight = shadow.inflight

\* a recordFailure is half-way (the count raised, lastFailure not yet set)
\* while another call is waiting in its simulated delay
C10_Witness ==
  /\ running.pc = "L67"
  /\ circuitState # shadow.cs
  /\ circuitState.failures = FAILURE_THRESHOLD
  /\ \E r \in Requests : r.pc = "delay"

(***************************************************************************)
(* More properties of the breaker (SpecBreaker)                            *)
(***************************************************************************)
\* C11: at most one call admitted while the breaker was HALF_OPEN is in its
\* downstream call at a time: no second call is admitted before the trial
\* call's outcome is recorded.
C11_SingleTrial ==
  \A r, q \in Requests :
    (/\ r.pc = "delay" /\ r.checked = "half-open"
     /\ q.pc = "delay" /\ q.checked = "half-open")
      => (q = r /\ CopiesIn(r, inflight) = 1)

(***************************************************************************)
(* More properties of the pipeline (Spec)                                  *)
(***************************************************************************)
\* C12: the response of processInquiry follows from the result of
\* callMockAi alone, whatever writeAuditEntry returned: a downstream
\* success is answered 200 with the AI answer, a rejection is answered 503
\* SERVICE_UNAVAILABLE, also when the audit write failed.
C12_AuditNeverMasks ==
  \A r \in Requests :
    (r.pc = "done" /\ r.called) =>
      /\ r.response =
           inquiryResponse(r.body.userId, r.sanitizeResult, r.aiResult)
      /\ r.aiResult.ok =>
           /\ r.response.status = 200
           /\ r.response.aiResponse = mockAiResponse(r.sent).message
      /\ (r.aiResult.status = 503) =>
           /\ r.response.status = 503
           /\ r.response.code = "SERVICE_UNAVAILABLE"

\* the audit write of a successful inquiry failed and the inquiry was
\* answered 200 with the AI answer
C12_Witness ==
  \E r \in Requests :
    /\ r.pc = "done"
    /\ r.aiResult.ok
    /\ r.auditResult = "error"
    /\ r.response.status = 200
    /\ r.response.aiResponse # << >>

\* the audit write of a rejected inquiry failed and the inquiry was
\* answered 503
C12_WitnessRejected ==
  \E r \in Requests :
    /\ r.pc = "done"
    /\ r.aiResult.status = 503
    /\ r.auditResult = "error"
    /\ r.response.code = "SERVICE_UNAVAILABLE"

(***************************************************************************)
(* Properties of encryption (SpecCrypto)                                   *)
(***************************************************************************)
\* the master key the payload was encrypted with is the one getMasterKey
\* returns now for the payload's version
StillResolvable(payload) ==
  LET master == getMasterKey(env, payload.keyVersion)
  IN  /\ master.ok
      /\ master.key = base64Decode(payload.ciphertext)[2][2]

\* what decrypt returns for plaintext right after encrypt: the plaintext
\* with every unpaired surrogate replaced by U+FFFD
Stored(plaintext) == utf8Decode(utf8Encode(plaintext))

\* C13, as stated: after any encrypt calls and any changes of the current
\* key version, a payload whose master key is still resolvable decrypts,
\* for the userId it was encrypted for, to the plaintext given to encrypt.
C13_RotationKeepsOriginal ==
  \A r \in Requests :
    (r.pc \in {"encrypted", "decrypted"} /\ StillResolvable(r.payload)) =>
      decrypt(env, r.payload, r.body.userId) =
        [ok |-> TRUE, plaintext |-> r.body.message]

\* What rotation itself leaves intact: after any encrypt calls and any
\* changes of the current key version, a payload whose master key is still
\* resolvable decrypts, for the userId it was encrypted for, to what it
\* decrypted to right after encryption. The plaintext is lost in the UTF-8
\* round trip of encrypt and decrypt, before any rotation, and only when
\* it holds an unpaired surrogate.
C13_RotationSafe ==
  \A r \in Requests :
    /\ (r.pc \in {"encrypted", "decrypted"} /\ StillResolvable(r.payload)) =>
         decrypt(env, r.payload, r.body.userId) =
           [ok |-> TRUE, plaintext |-> Stored(r.body.message)]
    /\ (r.pc = "decrypted" /\ r.decrypted.ok /\ r.reader = r.body.userId) =>
         r.decrypted.plaintext = Stored(r.body.message)

\* a payload encrypted under version 1, whose master key is as it was, was
\* decrypted by its own user while the current version was 2, and the
\* result is not the plaintext given to encrypt
C13_RotatedNotOriginal ==
  \E r \in Requests :
    /\ r.pc = "decrypted"
    /\ r.payload.keyVersion = 1
    /\ env.AUDIT_KEY_VERSION = 2
    /\ StillResolvable(r.payload)
    /\ r.reader = r.body.userId
    /\ r.decrypted.ok
    /\ r.decrypted.plaintext # r.body.message
    /\ r.decrypted.plaintext = Stored(r.body.message)

\* a payload encrypted under version 1 was decrypted to its plaintext while
\* the current version was 2, and a decrypt now gives the same
C13_Witness ==
  \E r \in Requests :
    /\ r.pc = "decrypted"
    /\ r.payload.keyVersion = 1
    /\ env.AUDIT_KEY_VERSION = 2
    /\ r.reader = r.body.userId
    /\ r.decrypted = [ok |-> TRUE, plaintext |-> r.body.message]
    /\ decrypt(env, r.payload, r.body.userId) = r.decrypted

\* C14: for every plaintext p, userId u and version v whose master key
\* getMasterKey resolves, encrypt(p, u, v) returns a payload and
\* decrypt of it with u returns p.
C14_RoundTrip ==
  \A p \in Plaintexts, u \in UserIds, v \in KeyVersions, iv \in IVs :
    getMasterKey(env, v).ok =>
      LET payload == encryptVersion(env, p, u, v, iv)
      IN  /\ payload.ok
          /\ decrypt(env, payload, u) = [ok |-> TRUE, plaintext |-> p]

\* the round trip for well-formed plaintexts and userIds whose info string
\* hkdfSync accepts
C14_RoundTripWellFormed ==
  \A p \in Plaintexts, u \in UserIds, v \in KeyVersions, iv \in IVs :
    (/\ getMasterKey(env, v).ok
     /\ \A i \in 1..Len(p) : ~Unpaired(p, i)
     /\ utf8Length(hkdfInfo(u, v)) <= HKDF_INFO_MAX) =>
      LET payload == encryptVersion(env, p, u, v, iv)
      IN  /\ payload.ok
          /\ decrypt(env, payload, u) = [ok |-> TRUE, plaintext |-> p]

\* C15: a decrypt call with a userId other than the one the payload was
\* encrypted for fails and returns no plaintext.
C15_WrongUserFails ==
  \A r \in Requests :
    (r.pc = "decrypted" /\ r.reader # r.body.userId) => ~r.decrypted.ok

\* decrypt fails for another userId whose info string has other bytes
C15_WrongUserFailsDistinctBytes ==
  \A r \in Requests :
    (/\ r.pc = "decrypted"
     /\ utf8Encode(r.reader) # utf8Encode(r.body.userId)) => ~r.decrypted.ok

\* what C16 asks of one step: a call made in production for a version
\* with no key configured throws
C16_Step ==
  \A q \in BagToSet(inflight') :
    (/\ q \notin BagToSet(inflight)
     /\ env.APP_ENV = "production"
     /\ env.keys[q.payload.keyVersion] = "absent") =>
      /\ q.pc \in {"encryptThrew", "decrypted"}
      /\ ~q.decrypted.ok

\* C16: in production getMasterKey fails for a version with no configured
\* key, and so do encrypt for that version and decrypt of any payload of
\* that version; no key is synthesized.
C16_ProductionFailsClosed ==
  /\ [](env.APP_ENV = "production" =>
          \A v \in KeyVersions :
            env.keys[v] = "absent" =>
              /\ ~getMasterKey(env, v).ok
              /\ \A p \in Plaintexts, u \in UserIds, iv \in IVs :
                   ~encryptVersion(env, p, u, v, iv).ok
              /\ \A r \in Requests, u \in Readers :
                   (r.payload.ok /\ r.payload.keyVersion = v) =>
                     ~decrypt(env, r.payload, u).ok)
  /\ [][C16_Step]_vars

\* in production with no key for version 2, a payload of version 2 exists
\* and a decrypt of it by its own user has failed
C16_Witness ==
  \E r \in Requests :
    /\ env.APP_ENV = "production"
    /\ env.keys[2] = "absent"
    /\ r.pc = "decrypted"
    /\ r.payload.keyVersion = 2
    /\ r.reader = r.body.userId
    /\ ~r.decrypted.ok
    /\ ~decrypt(env, r.payload, r.body.userId).ok

(***************************************************************************)
(* Properties of the sanitizer (SpecSanitizer)                             *)
(***************************************************************************)
\* the pattern of a class matches somewhere in text s
HasMatch(type, s) == \E i \in 1..Len(s) : MatchEnd(type, s, i) # 0

\* the number of places where sub occurs in s
Occurrences(sub, s) ==
  Cardinality({i \in 1..(Len(s) - Len(sub) + 1) :
                 SubSeq(s, i, i + Len(sub) - 1) = sub})

\* the position of a class in the scan order
ScanIndex(type) == CHOOSE k \in 1..Len(PII_PATTERNS) : PII_PATTERNS[k].type = type

\* C17: in the redactedMessage of every sanitize result no pattern (EMAIL,
\* CREDIT_CARD, SSN) matches anywhere.
C17_NoPiiLeft ==
  \A r \in Requests :
    r.pc = "sanitized" =>
      \A type \in PIIType : ~HasMatch(type, r.sanitizeResult.redactedMessage)

\* a match that only arose after an earlier class's replacement: the SSN
\* pattern matches nowhere in the text given (of "a@b.cc123456789", say),
\* an SSN was redacted all the same, and nothing matches in the result
C17_Witness ==
  \E r \in Requests :
    /\ r.pc = "sanitized"
    /\ ~HasMatch("SSN", r.body.message)
    /\ \E i \in 1..Len(r.sanitizeResult.redactedItems) :
         r.sanitizeResult.redactedItems[i].type = "SSN"
    /\ \A type \in PIIType :
         ~HasMatch(type, r.sanitizeResult.redactedMessage)

\* all three classes were redacted in one text
C17_WitnessAllClasses ==
  \E r \in Requests :
    /\ r.pc = "sanitized"
    /\ Len(r.sanitizeResult.redactedItems) = 3
    /\ \A type \in PIIType :
         ~HasMatch(type, r.sanitizeResult.redactedMessage)

\* C18: for a text in which no pattern matches (the empty text and
\* separator-only text included) sanitize returns the text itself and no
\* items.
C18_CleanTextUnchanged ==
  \A r \in Requests :
    (r.pc = "sanitized" /\ \A type \in PIIType : ~HasMatch(type, r.body.message))
      => r.sanitizeResult =
           [redactedMessage |-> r.body.message, redactedItems |-> << >>]

\* a non-empty text with a digit, "@" and "-" but no match came back as it
\* was
C18_Witness ==
  \E r \in Requests :
    /\ r.pc = "sanitized"
    /\ r.body.message = <<"7", "@", "-">>
    /\ r.sanitizeResult.redactedMessage = r.body.message
    /\ r.sanitizeResult.redactedItems = << >>

\* the empty text came back as it was
C18_WitnessEmpty ==
  \E r \in Requests :
    /\ r.pc = "sanitized"
    /\ r.body.message = << >>
    /\ r.sanitizeResult = [redactedMessage |-> << >>, redactedItems |-> << >>]

\* C19: the items are in scan order (EMAIL, CREDIT_CARD, SSN), one per
\* class at most; a class has an item exactly when something was replaced
\* by its placeholder, and the count is the number of placeholders put in.
C19_ItemsCountReplacements ==
  \A r \in Requests :
    r.pc = "sanitized" =>
      LET items == r.sanitizeResult.redactedItems
          out == r.sanitizeResult.redactedMessage
      IN  /\ \A i \in 1..Len(items) :
               /\ items[i].type \in PIIType
               /\ items[i].count >= 1
          /\ \A i, j \in 1..Len(items) :
               (i < j) => (ScanIndex(items[i].type) < ScanIndex(items[j].type))
          /\ \A k \in 1..Len(PII_PATTERNS) :
               LET put == Occurrences(PII_PATTERNS[k].placeholder, out)
               IN  IF put = 0
                     THEN \A i \in 1..Len(items) :
                            items[i].type # PII_PATTERNS[k].type
                     ELSE \E i \in 1..Len(items) :
                            items[i] = [type |-> PII_PATTERNS[k].type,
                                        count |-> put]

\* two emails and no other PII: one item, EMAIL with count 2
C19_Witness ==
  \E r \in Requests :
    /\ r.pc = "sanitized"
    /\ r.body.message = <<"a", "@", "b", ".", "c", "c", " ",
                          "a", "@", "b", ".", "c", "c">>
    /\ r.sanitizeResult.redactedItems = <<[type |-> "EMAIL", count |-> 2]>>

\* items of all three classes, in scan order
C19_WitnessAllClasses ==
  \E r \in Requests :
    /\ r.pc = "sanitized"
    /\ Len(r.sanitizeResult.redactedItems) = 3
    /\ r.sanitizeResult.redactedItems[1].type = "EMAIL"
    /\ r.sanitizeResult.redactedItems[2].type = "CREDIT_CARD"
    /\ r.sanitizeResult.redactedItems[3].type = "SSN"

(***************************************************************************)
(* Properties of the audit trail (SpecAudit)                               *)
(***************************************************************************)
\* what C20 asks of one step: every row of the table is still there, at
\* its place and with every field as it was
C20_Step ==
  /\ Len(auditEntries') >= Len(auditEntries)
  /\ \A i \in 1..Len(auditEntries) : auditEntries'[i] = auditEntries[i]

\* C20: no step of an inquiry or of a read changes or removes an entry of
\* the audit trail; the trail only grows at its end.
C20_AppendOnly == [][C20_Step]_vars

\* two entries were appended and a read after them returned both
C20_Witness ==
  /\ Len(auditEntries) >= 2
  /\ lastRead.ok
  /\ Len(lastRead.value) = 2
  /\ \A i \in 1..2 : \E j \in 1..2 : lastRead.value[j].id = auditEntries[i].id

\* the entries of a result are newest first
NewestFirst(entries) ==
  \A i, j \in 1..Len(entries) :
    (i < j) => (entries[i].timestamp[2] >= entries[j].timestamp[2])

\* what C21 asks of the latest result of readAuditEntriesByUser: only
\* entries of the user asked for, newest first, at most limit, each the
\* entry of a stored row with the stored originalMessage text
C21_Result ==
  (lastRead.op = "readAuditEntriesByUser" /\ lastRead.ok) =>
    /\ Len(lastRead.value) <= lastRead.limit
    /\ NewestFirst(lastRead.value)
    /\ \A i \in 1..Len(lastRead.value) :
         /\ lastRead.value[i].userId = lastRead.userId
         /\ \E row \in tableRows :
              /\ row.id = lastRead.value[i].id
              /\ row.originalMessage = lastRead.value[i].originalMessage
              /\ lastRead.value[i].originalMessage[1] = "json"
              /\ lastRead.value[i] = auditEntryOf(row)
         /\ \A j \in 1..Len(lastRead.value) :
              (i # j) => (lastRead.value[i].id # lastRead.value[j].id)

\* what C21 asks of each step of a read, from its call to its return: the
\* table is as it was
C21_Step ==
  (lastRead' # lastRead \/ reads' # reads) => (auditEntries' = auditEntries)

\* C21: readAuditEntriesByUser(userId, limit) returns only entries of that
\* userId, newest first by creation time, at most limit of them, with the
\* stored encrypted text as it is, and leaves the table unchanged.
C21_ReadByUser == []C21_Result /\ [][C21_Step]_vars

\* entries of two users are stored, and a read with limit 1 for one of them
\* returned one entry while the user has two
C21_Witness ==
  /\ lastRead.op = "readAuditEntriesByUser"
  /\ lastRead.ok
  /\ lastRead.limit = 1
  /\ Len(lastRead.value) = 1
  /\ Cardinality(whereUserId(tableRows, lastRead.userId)) = 2

\* a read returned the entries of one user while another user's entry is
\* stored
C21_WitnessOtherUser ==
  /\ lastRead.op = "readAuditEntriesByUser"
  /\ lastRead.ok
  /\ Len(lastRead.value) >= 1
  /\ \E row \in tableRows : row.userId # lastRead.userId

(***************************************************************************)
(* Recovery of the breaker (SpecLive)                                      *)
(***************************************************************************)
\* the breaker is half-open and a call arriving now is let through
Recovered ==
  /\ circuitState.state = "half-open"
  /\ ~circuitRejects(checkCircuitTransition(circuitState, now))

\* C22: an open breaker does not stay open: with the clock advancing and
\* status being read it becomes half-open, where a call is admitted again
\* (or an administrative reset has closed it before).
C22_AutoRecovers ==
  (circuitState.state = "open") ~> (Recovered \/ lastOp.op = "reset")

\* a status read found the breaker open past the timeout and left it
\* half-open
C22_Witness ==
  /\ Recovered
  /\ lastOp.op = "getStatus"
  /\ lastOp.pre = "open"

\* a call was admitted by a breaker it found open past the timeout
C22_WitnessAdmitted ==
  \E r \in Requests :
    /\ r.checked = "half-open"
    /\ r.pc = "delay"
    /\ lastOp.op = "admit"
    /\ lastOp.pre = "open"

(***************************************************************************)
(* Outcomes recorded by callMockAi (SpecAtomic)                            *)
(***************************************************************************)
\* the calls of callMockAi: the one on the stack and those off it
Calls == Requests \cup (IF running.called THEN {running} ELSE {})

\* C23: a call that was admitted (CLOSED or HALF_OPEN after the lazy
\* check) calls recordSuccess or recordFailure exactly once, never both and
\* never neither, and has done so, with the breaker updated, when it reaches
\* its return statement; the result it returns is of the recorded kind.
C23_OneOutcomeBeforeReturn ==
  \A r \in Calls :
    /\ Len(r.outcomes) <= 1
    /\ (r.pc \in {"L110", "L113", "L116", "delay"}) => (r.outcomes = << >>)
    /\ (r.pc = "L140") =>
         (r.outcomes = <<"success">> /\ circuitState.lastSuccess = now)
    /\ (r.pc = "L150") =>
         (r.outcomes = <<"failure">> /\ circuitState.lastFailure = now)
    /\ (r.pc = "aiDone" /\ r.checked \in {"closed", "half-open"}) =>
         /\ Len(r.outcomes) = 1
         /\ (r.outcomes[1] = "success") <=> r.aiResult.ok
         /\ (r.outcomes[1] = "failure") <=> ~r.aiResult.ok

\* two admitted calls have returned, one with a recorded success and one
\* with a recorded failure
C23_Witness ==
  /\ \E r \in Requests :
       r.pc = "aiDone" /\ r.checked = "closed" /\ r.outcomes = <<"success">>
  /\ \E r \in Requests :
       r.pc = "aiDone" /\ r.checked = "closed" /\ r.outcomes = <<"failure">>

\* a call admitted in HALF_OPEN is at its return statement with its failure
\* recorded and the breaker open again
C23_WitnessTrial ==
  /\ running.pc = "L150"
  /\ running.checked = "half-open"
  /\ running.outcomes = <<"failure">>
  /\ circuitState.state = "open"

(***************************************************************************)
(* Calls outstanding together (SpecBreaker)                                *)
(***************************************************************************)
\* the number of calls suspended in their downstream call, in a bag of calls
Outstanding(calls) ==
  BagCardinality([q \in {r \in BagToSet(calls) : r.pc = "delay"} |->
                    CopiesIn(q, calls)])

\* a further call passes the pre-check and starts its own downstream call
StartsAnother ==
  \E message \in CallTexts :
    /\ Invoke(message)
    /\ Outstanding(inflight') = Outstanding(inflight) + 1

\* a status read completes and returns the status
StatusCompletes == GetStatus /\ lastOp'.op = "getStatus"

\* a reset completes and leaves the initial breaker
ResetCompletes == Reset /\ circuitState' = circuitStateInit

\* C24: while a call is suspended in its downstream call, nothing holds the
\* breaker: a further call that the breaker does not reject can start its
\* own downstream call, and a status read and a reset can complete.
C24_NotHeldDuringCall ==
  (Outstanding(inflight) >= 1) =>
    /\ ( ( /\ started < MaxCalls
           /\ BagCardinality(inflight) < MaxInFlight
           /\ ~circuitRejects(checkCircuitTransition(circuitState, now)) )
         => ENABLED StartsAnother )
    /\ ENABLED StatusCompletes
    /\ ENABLED ResetCompletes

\* two calls are suspended in their downstream calls at once
C24_Witness == Outstanding(inflight) >= 2

\* a reset has completed while a call is suspended
C24_WitnessReset ==
  /\ Outstanding(inflight) >= 1
  /\ lastOp.op = "reset"

\* a status read has completed while a call is suspended
C24_WitnessStatus ==
  /\ Outstanding(inflight) >= 1
  /\ lastOp.op = "getStatus"

(***************************************************************************)
(* writeAuditEntry (Spec)                                                  *)
(***************************************************************************)
\* what C25 asks of a state: the insert is outstanding only with a payload
\* that encrypt returned, and a writeAuditEntry call that is over has
\* returned a Result, ok or error
C25_State ==
  \A r \in Requests :
    /\ (r.pc = "inserting") => (r.payload.ok /\ r.auditResult = "none")
    /\ (r.pc = "audited") => (r.auditResult \in {"ok", "error"})
    /\ (r.auditResult = "ok") => r.payload.ok
    /\ (r.pc = "audited" /\ ~r.payload.ok) => (r.auditResult = "error")

\* what C25 asks of a step: a row is added only by an insert that was
\* issued with an encrypted payload and that returns ok; a writeAuditEntry
\* call that returns an error adds nothing
C25_Step ==
  /\ (auditEntries' # auditEntries) =>
       \E r \in Requests :
         /\ r.pc = "inserting"
         /\ r.payload.ok
         /\ Len(auditEntries') = Len(auditEntries) + 1
         /\ auditEntries'[Len(auditEntries')].originalMessage =
              jsonStringify(r.payload)
         /\ inflight' = Becomes(r, [r EXCEPT !.pc = "audited",
                                             !.auditResult = "ok"])
  /\ \A r \in Requests :
       \A q \in BagToSet(inflight') :
         ( /\ r.pc \in {"aiDone", "inserting"}
           /\ q.pc = "audited"
           /\ q.auditResult = "error"
           /\ inflight' = Becomes(r, q) )
         => (auditEntries' = auditEntries)

\* C25: writeAuditEntry always returns a Result; when encrypt throws or the
\* insert fails it returns an error and no entry is added; the insert is
\* issued only after encrypt has returned a payload.
C25_AuditWriteNeverThrows == []C25_State /\ [][C25_Step]_vars

\* encrypt threw (no master key for the current version): the call
\* returned an error, no insert was issued and the table is empty
C25_Witness ==
  /\ auditEntries = << >>
  /\ \E r \in Requests :
       /\ r.pc = "audited"
       /\ r.auditResult = "error"
       /\ ~r.payload.ok
       /\ ~getMasterKey(env, getCurrentKeyVersion(env)).ok

\* the insert failed after a successful encrypt: error, and no entry
C25_WitnessInsertFailed ==
  /\ auditEntries = << >>
  /\ \E r \in Requests :
       /\ r.pc = "audited"
       /\ r.auditResult = "error"
       /\ r.payload.ok

\* the error kinds of the other failures of an inquiry
OtherKinds ==
  { serviceUnavailableError.code, aiServiceError.code, validationResponse.code }

\* C26: a failed audit write is reported with a kind that tells why: the
\* kind for an unresolvable master key differs from the kind for a failed
\* insert, and both differ from SERVICE_UNAVAILABLE, the downstream error
\* and the validation error.
C26_AuditErrorKinds ==
  \A r \in Requests :
    (r.pc = "audited" /\ r.auditResult = "error") =>
      /\ r.auditError.code \notin OtherKinds
      /\ (~getMasterKey(env, getCurrentKeyVersion(env)).ok) =>
           (r.auditError.code # writeAuditEntryCatch(insertErrorMessage).code)
      /\ r.payload.ok =>
           (r.auditError.code #
              writeAuditEntryCatch(
                encryptErrorMessage(env, r.body.userId,
                                    getCurrentKeyVersion(env))).code)

(***************************************************************************)
(* The synthesized master key (SpecCrypto)                                 *)
(***************************************************************************)
\* the key getMasterKey synthesizes for a version
SynthesizedKey(version) == [ok |-> TRUE, key |-> <<"dev-master-key", version>>]

\* environments of the modes given in which no key is configured for the
\* version
Unconfigured(modes, version) ==
  {e \in CryptoEnvs : e.APP_ENV \in modes /\ e.keys[version] = "absent"}

\* C27 as stated: in every mode other than production, getMasterKey for a
\* version with no configured key does not fail and returns a key that
\* depends on the version only.
C27_NonProductionSynthesizes ==
  (env.APP_ENV # "production") =>
    \A v \in KeyVersions :
      (env.keys[v] = "absent") =>
        /\ getMasterKey(env, v).ok
        /\ \A e \in Unconfigured({"development", "test"}, v) :
             getMasterKey(e, v) = getMasterKey(env, v)

\* C27 as amended: in development mode getMasterKey for a version with no
\* configured key does not fail and returns a key that depends on the
\* version only, whatever else the environment holds; in test mode, as in
\* production, it throws.
C27_DevelopmentSynthesizes ==
  \A v \in KeyVersions :
    (env.keys[v] = "absent") =>
      /\ (env.APP_ENV = "development") =>
           /\ getMasterKey(env, v) = SynthesizedKey(v)
           /\ \A e \in Unconfigured({"development"}, v) :
                getMasterKey(e, v) = getMasterKey(env, v)
      /\ (env.APP_ENV = "test") => ~getMasterKey(env, v).ok

\* in development, with no key configured for version 2 and the current
\* version 1, a text was encrypted for version 2 under the key derived from
\* the synthesized key of version 2
C27_Witness ==
  \E r \in Requests :
    /\ env.APP_ENV = "development"
    /\ env.keys[2] = "absent"
    /\ getCurrentKeyVersion(env) = 1
    /\ r.pc = "encrypted"
    /\ r.payload.keyVersion = 2
    /\ base64Decode(r.payload.ciphertext)[2] =
         deriveUserKey(SynthesizedKey(2).key, r.body.userId, 2).key

(***************************************************************************)
(* Key versions of the entries (SpecRestart)                               *)
(***************************************************************************)
\* what C28 asks of a stored row: its keyVersion column is the keyVersion
\* inside the serialized payload
C28_Row(row) ==
  /\ row.originalMessage[1] = "json"
  /\ jsonParse(row.originalMessage).keyVersion = row.keyVersion

\* what C28 asks of the step that adds a row: the row's version is the
\* current key version, and getMasterKey resolves that version
C28_Step ==
  (Len(auditEntries') > Len(auditEntries)) =>
    LET row == auditEntries'[Len(auditEntries')]
    IN  /\ C28_Row(row)
        /\ row.keyVersion = getCurrentKeyVersion(env)
        /\ getMasterKey(env, row.keyVersion).ok

\* C28: every entry of the audit trail has a keyVersion equal to the
\* keyVersion inside its serialized encrypted payload, and that version was
\* the current key version when the entry was written, with a master key
\* that getMasterKey resolved then.
C28_KeyVersionOfEntry ==
  /\ [](\A i \in 1..Len(auditEntries) : C28_Row(auditEntries[i]))
  /\ [][C28_Step]_vars

\* entries of both key versions are stored: one written before a rotation
\* and one after it
C28_Witness ==
  /\ Len(auditEntries) = 2
  /\ auditEntries[1].keyVersion = 1
  /\ auditEntries[2].keyVersion = 2
  /\ jsonParse(auditEntries[2].originalMessage).keyVersion = 2
  /\ getCurrentKeyVersion(env) = 2

(***************************************************************************)
(* Entries per inquiry and their fields (Spec)                             *)
(***************************************************************************)
\* C29: an inquiry calls writeAuditEntry at most once, whatever path it
\* takes, and so the audit trail never holds more entries than inquiries
\* were received.
C29_AtMostOneAuditWrite ==
  /\ \A r \in Requests :
       /\ Len(r.auditCalls) <= 1
       /\ (r.pc \in {"inserting", "audited"}) => (Len(r.auditCalls) = 1)
       /\ (r.called /\ ~auditsResult(r.aiResult)) => (r.auditCalls = << >>)
       /\ (~r.called) => (r.auditCalls = << >>)
  /\ Len(auditEntries) <= started

\* an inquiry rejected by the open breaker has been answered after its one
\* audit write, and an entry of it is stored
C29_Witness ==
  \E r \in Requests :
    /\ r.pc = "done"
    /\ r.aiResult.status = 503
    /\ Len(r.auditCalls) = 1
    /\ r.auditResult = "ok"
    /\ \E i \in 1..Len(auditEntries) : ~auditEntries[i].success

\* a successful inquiry has been answered after its one audit write
C29_WitnessSuccess ==
  \E r \in Requests :
    /\ r.pc = "done"
    /\ r.aiResult.ok
    /\ Len(r.auditCalls) = 1
    /\ r.auditResult = "ok"

\* what C30 asks of a stored row
C30_Row(row) ==
  /\ row.success <=> (row.aiResponse # <<"null">>)
  /\ row.success => (row.aiResponse # << >>)

\* what C30 asks of the step that adds a row: the row tells the outcome of
\* the call of the inquiry it is written for
C30_Step ==
  (Len(auditEntries') > Len(auditEntries)) =>
    LET row == auditEntries'[Len(auditEntries')]
    IN  \E r \in Requests :
          /\ r.pc = "inserting"
          /\ inflight' = Becomes(r, [r EXCEPT !.pc = "audited",
                                              !.auditResult = "ok"])
          /\ row.success = r.aiResult.ok
          /\ row.aiResponse =
               (IF r.aiResult.ok THEN r.aiResult.message ELSE <<"null">>)
          /\ (~r.aiResult.ok) => (r.aiResult.status = 503)

\* C30: an audit entry has success = true exactly when its aiResponse is
\* present: the entry of a rejected call has success = false and a null
\* aiResponse, the entry of a successful call has success = true and the
\* AI answer.
C30_SuccessIffAnswer ==
  /\ [](\A i \in 1..Len(auditEntries) : C30_Row(auditEntries[i]))
  /\ [][C30_Step]_vars

\* the entry of a rejected call is stored: success = false, aiResponse
\* null
C30_Witness ==
  \E i \in 1..Len(auditEntries) :
    /\ ~auditEntries[i].success
    /\ auditEntries[i].aiResponse = <<"null">>
    /\ circuitState.state = "open"

\* the entry of a successful call is stored: success = true and the answer
C30_WitnessSuccess ==
  \E i \in 1..Len(auditEntries) :
    /\ auditEntries[i].success
    /\ auditEntries[i].aiResponse = mockAiResponse(auditEntries[i].redactedMessage).message

(***************************************************************************)
(* C31                                                                     *)
(***************************************************************************)
\* the payload is what authenticated encryption of some message under the
\* key derived for userId yields
SealedFor(payload, userId) ==
  LET master == getMasterKey(env, payload.keyVersion)
      userKey == deriveUserKey(master.key, userId, payload.keyVersion)
  IN  /\ master.ok
      /\ userKey.ok
      /\ \E arg \in AuditArguments :
           LET bytes == utf8Encode(arg.originalMessage)
               iv == base64Decode(payload.iv)
           IN  /\ payload.ciphertext =
                    base64Encode(<<"aes-256-gcm", userKey.key, iv, bytes>>)
               /\ payload.tag =
                    base64Encode(<<"tag", userKey.key, iv, bytes>>)

\* the ciphertext field is the text of a message in base64: anyone reads it
ReadableWithoutKey(payload) ==
  \E arg \in AuditArguments :
    payload.ciphertext = base64Encode(utf8Encode(arg.originalMessage))

\* C31: in every persisted audit entry, originalMessage is the serialized
\* output of authenticated encryption under the key derived for the
\* entry's userId, so it is not readable without that key, and
\* redactedMessage is the redacted text in plaintext
C31_OriginalStoredEncrypted ==
  \A i \in 1..Len(auditEntries) :
    LET row == auditEntries[i]
        payload == jsonParse(row.originalMessage)
    IN  /\ row.originalMessage = jsonStringify(payload)
        /\ SealedFor(payload, row.userId)
        /\ ~ReadableWithoutKey(payload)
        /\ \E arg \in AuditArguments :
             /\ arg.userId = row.userId
             /\ row.redactedMessage = arg.redactedMessage

(***************************************************************************)
(* C32                                                                     *)
(***************************************************************************)
\* the body has an empty userId, an empty message or a message of more
\* than 10000 characters
Malformed(body) ==
  \/ Len(body.userId) = 0
  \/ Len(body.message) = 0
  \/ Len(body.message) > MESSAGE_MAX_LENGTH

\* a malformed request in flight has its validation error and nothing else
C32_State ==
  /\ \A r \in Requests :
       Malformed(r.body) =>
         /\ r.pc = "done"
         /\ r.response = validationResponse
         /\ ~r.called
         /\ r.checked = "none"
         /\ r.auditCalls = << >>
         /\ r.payload = NoPayload
  /\ \A i \in 1..Len(auditEntries) : ~Malformed(
       [userId |-> auditEntries[i].userId,
        message |-> auditEntries[i].redactedMessage])

\* the step in which a malformed request arrives leaves breaker and audit
\* trail as they were
C32_Step ==
  \A q \in BagToSet(inflight') :
    (/\ started' = started + 1
     /\ inflight' = inflight (+) SetToBag({q})
     /\ Malformed(q.body)) =>
      /\ circuitState' = circuitState
      /\ consecutive' = consecutive
      /\ lastOp' = lastOp
      /\ auditEntries' = auditEntries

\* C32: a request with an empty userId, an empty message or a message
\* longer than 10000 characters is answered with a validation error
\* without reaching the core: callMockAi is not called, writeAuditEntry is
\* not called, and the breaker is left as it was.
C32_ValidationStopsRequest == []C32_State /\ [][C32_Step]_vars

\* a request with a message of 10001 characters has its validation error
\* while the breaker is OPEN
C32_Witness ==
  /\ circuitState.state = "open"
  /\ \E r \in Requests :
       /\ Len(r.body.message) > MESSAGE_MAX_LENGTH
       /\ r.response.code = "VALIDATION_ERROR"

\* a request with an empty userId and one with an empty message have their
\* validation errors
C32_WitnessEmpty ==
  /\ \E r \in Requests :
       Len(r.body.userId) = 0 /\ r.response.code = "VALIDATION_ERROR"
  /\ \E r \in Requests :
       Len(r.body.message) = 0 /\ r.response.code = "VALIDATION_ERROR"

(***************************************************************************)
(* C33                                                                     *)
(***************************************************************************)
\* what the claim has the health endpoint report for a breaker state
Reported(state) ==
  IF state = "open" THEN <<"degraded", "unavailable">>
                    ELSE <<"healthy", "available">>

\* the answer of the latest status read, nothing having touched the
\* breaker since, tells the state the breaker is in
C33_State ==
  lastOp.op = "getStatus" =>
    /\ <<lastOp.health.status, lastOp.health.services.mockAi.status>> =
         Reported(circuitState.state)
    /\ lastOp.health.services.mockAi.circuitBreaker.state = circuitState.state

\* a status read answers from the state the lazy check leaves
C33_Step ==
  (lastOp'.op = "getStatus" /\ lastOp' # lastOp) =>
    LET after ==
          IF /\ circuitState.state = "open"
             /\ circuitState.lastFailure # Null
             /\ now - circuitState.lastFailure >= RESET_TIMEOUT
            THEN "half-open"
            ELSE circuitState.state
    IN  /\ circuitState'.state = after
        /\ <<lastOp'.health.status, lastOp'.health.services.mockAi.status>> =
             Reported(after)

\* C33: the health endpoint reports status 'degraded' and the mock AI
\* service 'unavailable' exactly when the breaker, after the lazy check of
\* the status read, is OPEN; for CLOSED and HALF_OPEN it reports 'healthy'
\* and 'available'.
C33_HealthTellsOpen == []C33_State /\ [][C33_Step]_vars

\* a status read found the breaker OPEN with the timeout elapsed, moved it
\* to HALF_OPEN and reported healthy
C33_Witness ==
  /\ lastOp.op = "getStatus"
  /\ lastOp.pre = "open"
  /\ circuitState.state = "half-open"
  /\ lastOp.health.status = "healthy"
  /\ lastOp.health.services.mockAi.status = "available"

\* a status read found the breaker OPEN within the timeout and reported
\* degraded
C33_WitnessDegraded ==
  /\ lastOp.op = "getStatus"
  /\ circuitState.state = "open"
  /\ lastOp.health.status = "degraded"
  /\ lastOp.health.services.mockAi.status = "unavailable"

(***************************************************************************)
(* C34                                                                     *)
(***************************************************************************)
\* the latest read was a global one that returned entries
GlobalRead == lastRead.op = "readAuditEntries" /\ lastRead.ok

\* the reads whose select the database answers in this step
Answered ==
  {p \in BagToSet(reads') :
     p.pc = "selected" /\ CopiesIn(p, reads') > CopiesIn(p, reads)}

\* the result of a global read is newest first, as the per-user read's
\* is: the newest rows the table has when the database answers the select,
\* as many as the limit allows; and what the read returns is that answer
C34_Ordering ==
  /\ \A p \in Answered :
       (p.read.op = "readAuditEntries" /\ p.read.ok) =>
         LET value == p.read.value
         IN  /\ NewestFirst(value)
             /\ Len(value) =
                  (IF p.read.limit < Len(auditEntries) THEN p.read.limit
                                                       ELSE Len(auditEntries))
             /\ \A i \in 1..Len(value) :
                  /\ \E row \in tableRows : value[i] = auditEntryOf(row)
                  /\ \A row \in tableRows :
                       (\A j \in 1..Len(value) : value[j].id # row.id)
                         => row.createdAt <= value[i].timestamp[2]
  /\ (lastRead' # lastRead) =>
       \E q \in BagToSet(reads) : q.pc = "selected" /\ lastRead' = q.read

\* C34 as stated: the global read uses the same ordering (newest first)
\* and, when the caller supplies no limit, the same default limit as the
\* per-user read.
C34_SameOrderSameDefault ==
  /\ GlobalRead => NewestFirst(lastRead.value)
  /\ (lastRead.op = "readAuditEntries" /\ lastRead.given = Null)
       => lastRead.limit = byUserLimit(Null)

\* the limit each read applies
C34_Defaults ==
  /\ (lastRead.op = "readAuditEntries" /\ lastRead.given = Null)
       => lastRead.limit = 1000
  /\ (lastRead.op = "readAuditEntriesByUser" /\ lastRead.given = Null)
       => lastRead.limit = 100
  /\ (lastRead.op # "none" /\ lastRead.given # Null)
       => lastRead.limit = lastRead.given

\* C34 amended: the global read uses the same ordering (newest first) as
\* the per-user read; when the caller supplies no limit it applies its own
\* default of 1000, where the per-user read applies 100; a limit the caller
\* supplies is applied as it is by both.
C34_SameOrderOwnDefault == [][C34_Ordering]_vars /\ []C34_Defaults

\* a global read with no limit supplied returned two entries of different
\* creation times, the newer one first
C34_Witness ==
  /\ GlobalRead
  /\ lastRead.given = Null
  /\ Len(lastRead.value) = 2
  /\ lastRead.value[1].timestamp[2] > lastRead.value[2].timestamp[2]

\* a global read with limit 1 returned the newer of two entries
C34_WitnessLimited ==
  /\ GlobalRead
  /\ lastRead.given = 1
  /\ Len(auditEntries) = 2
  /\ Len(lastRead.value) = 1
  /\ \E row \in tableRows : row.createdAt < lastRead.value[1].timestamp[2]

(***************************************************************************)
(* C35                                                                     *)
(***************************************************************************)
\* C35: between any two operations of concurrent callMockAi calls, status
\* reads and resets, the breaker is CLOSED if and only if failureCount is
\* below the threshold of 3: CLOSED never holds 3 or more failures, OPEN
\* and HALF_OPEN never hold fewer than 3.
C35_ClosedIffBelowThreshold ==
  /\ circuitState.state \in {"closed", "open", "half-open"}
  /\ (circuitState.state = "closed") <=> (circuitState.failures < 3)

\* a call admitted before the breaker opened has recorded its failure on
\* the OPEN breaker: 4 failures
C35_Witness ==
  /\ circuitState.state = "open"
  /\ circuitState.failures = 4
  /\ lastOp.op = "recordFailure"
  /\ lastOp.pre = "open"

\* the lazy check has moved the breaker to HALF_OPEN, which holds the
\* failures that opened it
C35_WitnessHalfOpen ==
  /\ circuitState.state = "half-open"
  /\ circuitState.failures = 3

(***************************************************************************)
(* C36                                                                     *)
(***************************************************************************)
\* C36: whenever the breaker is OPEN or HALF_OPEN its lastFailure timestamp
\* is set, so for an OPEN breaker there is an instant from which the lazy
\* check moves it to HALF_OPEN: it is never OPEN with no timestamp.
C36_OpenHasTimestamp ==
  /\ (circuitState.state \in {"open", "half-open"})
       => (circuitState.lastFailure # Null /\ circuitState.lastFailure <= now)
  /\ (circuitState.state = "open")
       => checkCircuitTransition(
            circuitState, circuitState.lastFailure + RESET_TIMEOUT).state
            = "half-open"

\* an invocation found the breaker OPEN with the timeout counted from its
\* timestamp elapsed, and moved it to HALF_OPEN
C36_Witness ==
  /\ circuitState.state = "half-open"
  /\ lastOp.op = "admit"
  /\ lastOp.pre = "open"
  /\ lastOp.at >= circuitState.lastFailure + RESET_TIMEOUT

\* the failure that has just opened the breaker left its timestamp
C36_WitnessOpen ==
  /\ circuitState.state = "open"
  /\ lastOp.op = "recordFailure"
  /\ lastOp.pre = "closed"
  /\ circuitState.lastFailure = lastOp.at

(***************************************************************************)
(* C37                                                                     *)
(***************************************************************************)
\* what C37 asks of one step
C37_Step ==
  /\ ((RecordedStep("success") \/ RecordedStep("failure"))
        /\ circuitState.state = "open")
       => circuitState'.state = "open"
  /\ (RecordedStep("success") /\ circuitState.state = "open")
       => /\ circuitState'.failures = circuitState.failures
          /\ circuitState'.failures >= 3
          /\ circuitState'.lastFailure = circuitState.lastFailure

\* C37: an outcome recorded while the breaker is OPEN, by a call admitted
\* before it opened, leaves the breaker OPEN; a late success neither closes
\* it nor resets failureCount.
C37_LateOutcomeKeepsOpen == [][C37_Step]_vars

\* a success has just been recorded on the OPEN breaker, which is still
\* OPEN with its failures
C37_Witness ==
  /\ lastOp.op = "recordSuccess"
  /\ lastOp.pre = "open"
  /\ circuitState.state = "open"
  /\ circuitState.failures >= 3
  /\ circuitState.lastSuccess = lastOp.at

\* a failure has just been recorded on the OPEN breaker, which is still
\* OPEN
C37_WitnessFailure ==
  /\ lastOp.op = "recordFailure"
  /\ lastOp.pre = "open"
  /\ circuitState.state = "open"
  /\ circuitState.lastFailure = lastOp.at
  /\ circuitState.failures > FAILURE_THRESHOLD

(***************************************************************************)
(* C38                                                                     *)
(***************************************************************************)
\* the latest operation was a status read or an invocation, and it left the
\* breaker OPEN
LeftOpen ==
  /\ lastOp.op \in {"getStatus", "admit", "reject"}
  /\ circuitState.state = "open"

\* C38 as stated: calls in flight when the breaker opens cannot postpone
\* recovery: a status read or invocation made at least 30000 ms after the
\* failure that moved the breaker to OPEN finds it HALF_OPEN or past it,
\* whatever the calls in flight have recorded in the meantime.
C38_InFlightCannotPostpone ==
  LeftOpen => (lastOp.at - openedAt < 30000)

\* what the amended C38 asks of a state
C38_State ==
  /\ LeftOpen => (lastOp.at - circuitState.lastFailure < 30000)
  /\ (circuitState.state = "open")
       => (openedAt # Null /\ openedAt <= circuitState.lastFailure)

\* what the amended C38 asks of an outcome recorded on the OPEN breaker
C38_Step ==
  /\ (RecordedStep("success") /\ circuitState.state = "open")
       => circuitState'.lastFailure = circuitState.lastFailure
  /\ (RecordedStep("failure") /\ circuitState.state = "open")
       => (circuitState'.lastFailure = now /\ openedAt' = openedAt)

\* C38 amended: a status read or invocation made at least 30000 ms after
\* the latest recorded failure finds the breaker HALF_OPEN or past it. A
\* call in flight when the breaker opens cannot postpone recovery by a
\* success, which leaves lastFailure as it is, but its failure recorded on
\* the OPEN breaker moves lastFailure to its own time, and recovery with it.
C38_LatestFailureCounts == []C38_State /\ [][C38_Step]_vars

\* a status read made 30000 ms or more after the failure that opened the
\* breaker has left it OPEN, a call in flight having failed since
C38_Witness ==
  /\ lastOp.op = "getStatus"
  /\ circuitState.state = "open"
  /\ lastOp.at - openedAt >= RESET_TIMEOUT
  /\ circuitState.lastFailure > openedAt

\* a call in flight when the breaker opened has recorded a success since,
\* and an invocation made 30000 ms after the opening failure was admitted
C38_WitnessSuccess ==
  /\ lastOp.op = "admit"
  /\ lastOp.pre = "open"
  /\ circuitState.state = "half-open"
  /\ circuitState.lastSuccess # Null
  /\ circuitState.lastSuccess > circuitState.lastFailure
  /\ circuitState.failures >= 3

(***************************************************************************)
(* C39                                                                     *)
(***************************************************************************)
\* what C39 asks of the step in which a call arrives
C39_Step ==
  \A q \in BagToSet(inflight') :
    (/\ ArrivalOf(q)
     /\ circuitState.state = "open"
     /\ circuitState.lastFailure # Null
     /\ now - circuitState.lastFailure >= 30000) =>
      /\ circuitState'.state = "half-open"
      /\ q.pc = "delay"
      /\ q.checked = "half-open"
      /\ q.startTime = now
      /\ q.resolvedAt = Null
      /\ q.aiResult.code # "SERVICE_UNAVAILABLE"

\* C39: an invocation that arrives at an OPEN breaker whose reset timeout
\* has elapsed is itself admitted as the trial call: the callMockAi call
\* that makes the OPEN to HALF_OPEN transition goes on to the downstream
\* call and is not rejected with SERVICE_UNAVAILABLE.
C39_TransitionCallIsTrial == [][C39_Step]_vars

\* the call that found the breaker OPEN with the timeout elapsed is in its
\* downstream delay, the breaker HALF_OPEN
C39_Witness ==
  /\ lastOp.op = "admit"
  /\ lastOp.pre = "open"
  /\ circuitState.state = "half-open"
  /\ \E r \in Requests :
       /\ r.pc = "delay"
       /\ r.checked = "half-open"
       /\ r.startTime = lastOp.at

\* that call has its answer, and its success has closed the breaker
C39_WitnessAnswered ==
  /\ lastOp.op = "recordSuccess"
  /\ lastOp.pre = "half-open"
  /\ \E r \in Requests :
       /\ r.pc = "aiDone"
       /\ r.checked = "half-open"
       /\ r.aiResult.ok
  /\ circuitState.state = "closed"

(***************************************************************************)
(* C40: start-up validation and the key of the current version             *)
(***************************************************************************)
\* the process runs in production mode in an environment env.ts lets it
\* start with
StartedInProduction == env.APP_ENV = "production" /\ EnvValid(env)

\* what C40 asks of one step: an encrypt under the current version that
\* throws in such a process had its master key resolved, so it threw for
\* another reason
C40_Step ==
  \A q \in BagToSet(inflight') :
    (/\ q \notin BagToSet(inflight)
     /\ StartedInProduction
     /\ q.pc = "encryptThrew"
     /\ q.payload.keyVersion = getCurrentKeyVersion(env)) =>
      getMasterKey(env, getCurrentKeyVersion(env)).ok

\* C40: once start-up validation has passed in production mode, the master
\* key of the current key version is resolvable, so no encrypt under the
\* current version throws for lack of a key
C40_EncryptNeverLacksKey == [][C40_Step]_vars

\* the same for a process whose current key version is 1, the version
\* whose key variable env.ts requires
C40_StepVersionOne ==
  getCurrentKeyVersion(env) = 1 => C40_Step

C40_VersionOneNeverLacksKey ==
  /\ [](StartedInProduction /\ getCurrentKeyVersion(env) = 1 =>
          getMasterKey(env, 1).ok)
  /\ [][C40_StepVersionOne]_vars

====
